---- MODULE Spec2Model ----
(***************************************************************************)
(* Router (AIServiceManager), Health Tracker (AIErrorHandler) and the     *)
(* adapter contract of backend/ai_service_manager.py,                     *)
(* backend/ai_error_handler.py and backend/ai_service_base.py.            *)
(*                                                                         *)
(* Health scores are kept in units of 1/360 (1.0 = One), time in ticks of *)
(* SecondsPerTick seconds.  Every request runs on its own thread (one     *)
(* Flask worker thread with a private event loop), so the steps of        *)
(* different requests interleave; the steps of one request are ordered.   *)
(***************************************************************************)
EXTENDS Integers, Sequences, FiniteSets, TLC

\* ---------------------------------------------------------------- bounds
NumReqs == 2
MaxTime == 1
Epoch == 1000
\* calls made directly on the Health Tracker: failures recorded per provider
\* between two resets, ticks waited within an hour, hours waited
MaxErrors == 5
MaxWait == 3
MaxHours == 1
\* failures recorded per provider while the registry is set up again and again
MaxFailures == 2
\* items in the content list of a batch
MaxItems == 2
\* longest stripped text of a content handed to an adapter
MaxContent == 11
\* largest max_retries of a config
MaxRetries == 3
\* longest text handed to the JSON extractor
MaxText == 6

Reqs == 1..NumReqs

\* ------------------------------------------------------------- constants
None == "None"
Absent == 0 - 1
SecondsPerTick == 100

AIProviderType == {"openai", "google_gemini", "lm_studio", "ollama"}
priority_order == <<"google_gemini", "openai", "lm_studio", "ollama">>

\* the kinds the deployment supplies a configuration for
ConfiguredKinds == {"google_gemini", "openai"}

\* the health score 1.0; one unit is 1/360, the amount decay_health_over_time
\* takes off for one tick of inactivity (0.1 * 100 / 3600)
One == 360

min_health_threshold == (3 * One) \div 10
health_decay_rate == One \div 10
health_recovery_rate == (2 * One) \div 10
max_consecutive_failures == 5

\* AIServiceConfig.max_retries, at its default
max_retries == 3

\* AIServiceConfig, reduced to the four tunables a request may override;
\* 0 is the registered value, r > 0 the value request r asks for
BaseConfig == [model_name |-> 0, temperature |-> 0, max_tokens |-> 0, top_p |-> 0]

\* the config built from the credentials of a request and handed to
\* ensure_provider_initialized: values no start-up config and no override has
HotConfig ==
    [model_name |-> NumReqs + 1, temperature |-> NumReqs + 1,
     max_tokens |-> NumReqs + 1, top_p |-> NumReqs + 1]

ConfigChoices == {BaseConfig, HotConfig}

\* error texts an adapter can report (str(error).lower())
ErrorTexts == {"429 rate limit exceeded", "connection timeout", "401 unauthorized",
               "quota exceeded", "internal server error"}

\* error texts in which the words of two categories occur
MixedTexts == {"rate limit after timeout", "timeout: unauthorized",
               "unauthorized: quota exceeded"}

\* the error texts the adapters of the modelled deployment come back with
AdapterErrors == {"401 unauthorized", "internal server error"}

Kinds == {"generate_question", "generate_question_answer_pair"}

VARIABLES services, provider_status, primary_provider, fallback_order, config,
          error_handler, now, req, returned

vars == <<services, provider_status, primary_provider, fallback_order, config,
          error_handler, now, req, returned>>

\* ------------------------------------------------------------- helpers
InSeq(x, s) == \E k \in 1..Len(s) : s[k] = x

MaxOf(a, b) == IF a > b THEN a ELSE b
MinOf(a, b) == IF a < b THEN a ELSE b

\* ========================================================= Health Tracker
\* substring tests of handle_error on the lowered error text
HasRateLimit(msg) == msg \in {"429 rate limit exceeded", "rate limit after timeout"}
HasTimeout(msg) == msg \in {"connection timeout", "rate limit after timeout", "timeout: unauthorized"}
HasAuth(msg) == msg \in {"401 unauthorized", "timeout: unauthorized", "unauthorized: quota exceeded"}
HasQuota(msg) == msg \in {"quota exceeded", "unauthorized: quota exceeded"}

get_provider_health(eh, provider) ==
    IF eh.provider_health[provider] = Absent THEN One ELSE eh.provider_health[provider]

\* _update_health as it would be without the clamp
update_health_unclamped(eh, provider, delta) ==
    [eh EXCEPT !.provider_health[provider] = get_provider_health(eh, provider) + delta]

update_health(eh, provider, delta) ==
    LET current_health == get_provider_health(eh, provider)
        new_health == MaxOf(0, MinOf(One, current_health + delta))
    IN [eh EXCEPT !.provider_health[provider] = new_health]

\* the classification as it would be by the error text alone
ErrorCategory_text_only(msg, failures) ==
    IF HasRateLimit(msg) THEN "rate_limit"
    ELSE IF HasTimeout(msg) THEN "timeout"
    ELSE IF HasAuth(msg) THEN "authentication"
    ELSE IF HasQuota(msg) THEN "quota"
    ELSE "generic"

\* the classification as it would be if the exhaustion test came first
ErrorCategory_exhaustion_first(msg, failures) ==
    IF failures >= max_consecutive_failures THEN "consecutive"
    ELSE IF HasRateLimit(msg) THEN "rate_limit"
    ELSE IF HasTimeout(msg) THEN "timeout"
    ELSE IF HasAuth(msg) THEN "authentication"
    ELSE IF HasQuota(msg) THEN "quota"
    ELSE "generic"

\* the branch handle_error takes, decided after the counters were incremented
ErrorCategory(msg, failures) ==
    IF HasRateLimit(msg) THEN "rate_limit"
    ELSE IF HasTimeout(msg) THEN "timeout"
    ELSE IF HasAuth(msg) THEN "authentication"
    ELSE IF HasQuota(msg) THEN "quota"
    ELSE IF failures >= max_consecutive_failures THEN "consecutive"
    ELSE "generic"

HealthDelta(category) ==
    CASE category = "rate_limit" -> 0 - (10 * One) \div 100
      [] category = "timeout" -> 0 - (20 * One) \div 100
      [] category = "authentication" -> 0 - (50 * One) \div 100
      [] category = "quota" -> 0 - (80 * One) \div 100
      [] category = "consecutive" -> 0 - (30 * One) \div 100
      [] OTHER -> 0 - (15 * One) \div 100

\* the ErrorInfo as it would be if every category were Medium with delay 2
ErrorInfo_all_medium(category) ==
    [severity |-> "medium", should_fallback |-> TRUE, retry_delay |-> 2]

ErrorInfo(category) ==
    CASE category = "rate_limit" ->
            [severity |-> "medium", should_fallback |-> TRUE, retry_delay |-> 30]
      [] category = "timeout" ->
            [severity |-> "high", should_fallback |-> TRUE, retry_delay |-> 5]
      [] category = "authentication" ->
            [severity |-> "critical", should_fallback |-> TRUE, retry_delay |-> 0]
      [] category = "quota" ->
            [severity |-> "critical", should_fallback |-> TRUE, retry_delay |-> 0]
      [] category = "consecutive" ->
            [severity |-> "critical", should_fallback |-> TRUE, retry_delay |-> 0]
      [] OTHER ->
            [severity |-> "medium", should_fallback |-> TRUE, retry_delay |-> 2]

\* handle_error: the tracker after the call
handle_error(eh, msg, provider, current_time) ==
    LET eh1 == [eh EXCEPT !.error_counts[provider] = @ + 1,
                          !.last_error_time[provider] = current_time,
                          !.consecutive_failures[provider] = @ + 1]
        category == ErrorCategory(msg, eh1.consecutive_failures[provider])
    IN update_health(eh1, provider, HealthDelta(category))

\* handle_error: the ErrorInfo it returns
handle_error_info(eh, msg, provider) ==
    ErrorInfo(ErrorCategory(msg, eh.consecutive_failures[provider] + 1))

\* handle_success as it would be if it also forgot the last error time
handle_success_clears_error_time(eh, provider) ==
    update_health([eh EXCEPT !.consecutive_failures[provider] = 0,
                             !.last_error_time[provider] = Absent],
                  provider, health_recovery_rate)

handle_success(eh, provider) ==
    update_health([eh EXCEPT !.consecutive_failures[provider] = 0],
                  provider, health_recovery_rate)

\* should_use_provider as it would be without the consecutive-failures test
should_use_provider_no_failure_test(eh, provider, current_time) ==
    LET health == get_provider_health(eh, provider)
        last_error == eh.last_error_time[provider]
    IN IF health < min_health_threshold THEN FALSE
       ELSE IF last_error # Absent
                 /\ (current_time - last_error) * SecondsPerTick * One
                       < (One - health) * 300 THEN FALSE
       ELSE TRUE

\* should_use_provider as it would be if the cool-down alone decided
should_use_provider_cooldown_only(eh, provider, current_time) ==
    LET health == get_provider_health(eh, provider)
        last_error == eh.last_error_time[provider]
    IN ~(last_error # Absent
           /\ (current_time - last_error) * SecondsPerTick * One < (One - health) * 300)

should_use_provider(eh, provider, current_time) ==
    LET health == get_provider_health(eh, provider)
        failures == eh.consecutive_failures[provider]
        last_error == eh.last_error_time[provider]
    IN IF health < min_health_threshold THEN FALSE
       ELSE IF failures >= max_consecutive_failures THEN FALSE
       ELSE IF last_error # Absent
                 /\ (current_time - last_error) * SecondsPerTick * One
                       < (One - health) * 300 THEN FALSE
       ELSE TRUE

\* reset_provider_health as it would be if it always reset every provider
reset_provider_health_of_all(eh, provider) ==
    [provider_health |-> [p \in AIProviderType |-> Absent],
     error_counts |-> [p \in AIProviderType |-> 0],
     consecutive_failures |-> [p \in AIProviderType |-> 0],
     last_error_time |-> [p \in AIProviderType |-> Absent]]

\* reset_provider_health(provider) of the tracker; provider None resets all
reset_provider_health(eh, provider) ==
    IF provider # None
    THEN [eh EXCEPT !.provider_health[provider] = One,
                    !.error_counts[provider] = 0,
                    !.consecutive_failures[provider] = 0,
                    !.last_error_time[provider] = Absent]
    ELSE [provider_health |-> [p \in AIProviderType |-> Absent],
          error_counts |-> [p \in AIProviderType |-> 0],
          consecutive_failures |-> [p \in AIProviderType |-> 0],
          last_error_time |-> [p \in AIProviderType |-> Absent]]

\* the decay as it would be without the clamp
decay_provider_unclamped(eh, provider, current_time) ==
    LET last_error == IF eh.last_error_time[provider] = Absent THEN 0
                      ELSE eh.last_error_time[provider]
        time_since_activity == (current_time - last_error) * SecondsPerTick
        decay_amount == (health_decay_rate * time_since_activity) \div 3600
    IN IF time_since_activity > 3600
       THEN eh.provider_health[provider] - decay_amount
       ELSE eh.provider_health[provider]

\* the decay as it would be if inactivity gave health back
decay_provider_recovers(eh, provider, current_time) ==
    LET last_error == IF eh.last_error_time[provider] = Absent THEN 0
                      ELSE eh.last_error_time[provider]
        time_since_activity == (current_time - last_error) * SecondsPerTick
        decay_amount == (health_decay_rate * time_since_activity) \div 3600
    IN IF time_since_activity > 3600
       THEN MaxOf(0, MinOf(One, eh.provider_health[provider] + decay_amount))
       ELSE eh.provider_health[provider]

\* decay_health_over_time for one provider that has a health entry; a provider
\* without an error time is taken to have been inactive since time 0
decay_provider(eh, provider, current_time) ==
    LET last_error == IF eh.last_error_time[provider] = Absent THEN 0
                      ELSE eh.last_error_time[provider]
        time_since_activity == (current_time - last_error) * SecondsPerTick
        decay_amount == (health_decay_rate * time_since_activity) \div 3600
    IN IF time_since_activity > 3600
       THEN MaxOf(0, MinOf(One, eh.provider_health[provider] - decay_amount))
       ELSE eh.provider_health[provider]

\* decay_health_over_time: every provider with a health entry
decay_health_over_time(eh, current_time) ==
    [eh EXCEPT !.provider_health =
        [p \in AIProviderType |->
            IF eh.provider_health[p] = Absent THEN Absent
            ELSE decay_provider(eh, p, current_time)]]

\* ================================================================= Router
\* AIServiceManager.reset_provider_health: writes the health entry only
manager_reset_provider_health(eh, provider_type) ==
    IF provider_type # None
    THEN [eh EXCEPT !.provider_health[provider_type] = One]
    ELSE [eh EXCEPT !.provider_health = [p \in AIProviderType |-> Absent]]

\* _set_provider_priority as it would be without the health filter
set_provider_priority_unfiltered(status, eh, current_time, cur) ==
    LET available_providers == {p \in AIProviderType : status[p] = "available"}
        first == CHOOSE k \in 1..Len(priority_order) :
                    /\ priority_order[k] \in available_providers
                    /\ \A j \in 1..(k - 1) : priority_order[j] \notin available_providers
        primary == priority_order[first]
    IN IF available_providers = {} THEN cur
       ELSE [primary_provider |-> primary,
             fallback_order |-> SelectSeq(priority_order,
                                   LAMBDA p : p \in available_providers /\ p # primary)]

\* _set_provider_priority: the new (primary, fallback order); cur is kept
\* when nothing is available
set_provider_priority(status, eh, current_time, cur) ==
    LET available_providers == {p \in AIProviderType : status[p] = "available"}
        healthy_providers == {p \in available_providers :
                                 should_use_provider(eh, p, current_time)}
        providers_to_consider == IF healthy_providers # {} THEN healthy_providers
                                 ELSE available_providers
        first == CHOOSE k \in 1..Len(priority_order) :
                    /\ priority_order[k] \in providers_to_consider
                    /\ \A j \in 1..(k - 1) : priority_order[j] \notin providers_to_consider
        primary == priority_order[first]
    IN IF available_providers = {} THEN cur
       ELSE [primary_provider |-> primary,
             fallback_order |-> SelectSeq(priority_order,
                                   LAMBDA p : p \in providers_to_consider /\ p # primary)]

\* the chain as it would be if disable_fallback were not looked at
providers_to_try_fallback_always(registry, primary, fallback, preferred_provider, disable_fallback) ==
    LET first == IF preferred_provider # None /\ preferred_provider \in registry
                 THEN <<preferred_provider>> ELSE <<>>
        withPrimary == IF primary # None /\ ~InSeq(primary, first)
                       THEN Append(first, primary) ELSE first
    IN withPrimary \o SelectSeq(fallback, LAMBDA p : ~InSeq(p, withPrimary))

\* the chain as it would be if the fallback order were appended unfiltered
providers_to_try_unfiltered(registry, primary, fallback, preferred_provider, disable_fallback) ==
    LET first == IF preferred_provider # None /\ preferred_provider \in registry
                 THEN <<preferred_provider>> ELSE <<>>
        withPrimary == IF primary # None /\ ~InSeq(primary, first)
                       THEN Append(first, primary) ELSE first
    IN IF disable_fallback THEN first ELSE withPrimary \o fallback

\* the candidate chain of generate_question / generate_question_answer_pair
providers_to_try(registry, primary, fallback, preferred_provider, disable_fallback) ==
    LET first == IF preferred_provider # None /\ preferred_provider \in registry
                 THEN <<preferred_provider>> ELSE <<>>
        withPrimary == IF primary # None /\ ~InSeq(primary, first)
                       THEN Append(first, primary) ELSE first
    IN IF disable_fallback THEN first
       ELSE withPrimary \o SelectSeq(fallback, LAMBDA p : ~InSeq(p, withPrimary))

\* the check as it would be without the health test
candidate_eligible_registered_only(registry, eh, provider, current_time) ==
    provider \in registry

\* the check made when a candidate is reached (lines 208-215, 361-368)
candidate_eligible(registry, eh, provider, current_time) ==
    /\ provider \in registry
    /\ should_use_provider(eh, provider, current_time)

\* the temporary overrides written into service.config before the call
apply_overrides(rq, cfg) ==
    IF rq.kind = "generate_question"
    THEN [cfg EXCEPT !.model_name = IF rq.preferred_model # 0 THEN rq.preferred_model ELSE @]
    ELSE [model_name |-> IF rq.preferred_model # 0 THEN rq.preferred_model ELSE cfg.model_name,
          temperature |-> IF rq.temperature # 0 THEN rq.temperature ELSE cfg.temperature,
          max_tokens |-> IF rq.max_tokens # 0 THEN rq.max_tokens ELSE cfg.max_tokens,
          top_p |-> IF rq.top_p # 0 THEN rq.top_p ELSE cfg.top_p]

\* the finally block as it would be if only the model name were written back
restore_config_model_only(kind, cfg, original) ==
    [cfg EXCEPT !.model_name = original.model_name]

\* the finally block: the saved values are written back into service.config
restore_config(kind, cfg, original) ==
    IF kind = "generate_question"
    THEN [cfg EXCEPT !.model_name = original.model_name]
    ELSE [cfg EXCEPT !.model_name = original.model_name,
                     !.temperature = original.temperature,
                     !.max_tokens = original.max_tokens,
                     !.top_p = original.top_p]

\* the loop body as it would be if a success did not return
after_call_no_return_on_success(kind, outcome, disable_fallback, info) ==
    IF outcome # "ok" /\ disable_fallback THEN "return" ELSE "continue"

\* what the loop body does with the adapter's outcome
\*   "return"   return a response now      "continue" next candidate
\*   "break"    leave the loop
after_call(kind, outcome, disable_fallback, info) ==
    IF outcome = "ok" THEN "return"
    ELSE IF disable_fallback THEN "return"
    ELSE IF kind = "generate_question"
    THEN IF outcome = "fail"
         THEN IF ~info.should_fallback THEN "break" ELSE "continue"
         ELSE IF info.severity = "critical" \/ ~info.should_fallback
              THEN "break" ELSE "continue"
    ELSE "continue"

\* whether the loop body hands the failure to error_handler.handle_error
reports_failure(kind, outcome, disable_fallback) ==
    /\ kind = "generate_question"
    /\ outcome \in {"fail", "raise"}
    /\ ~disable_fallback

\* whether the loop body hands the success to error_handler.handle_success
reports_success(kind, outcome) == FALSE

\* the except branch of generate_question sets the provider's status to ERROR
marks_status_error(kind, outcome, disable_fallback) ==
    /\ kind = "generate_question"
    /\ outcome = "raise"
    /\ ~disable_fallback

\* _get_provider_display_name
get_provider_display_name(provider_type) ==
    CASE provider_type = "openai" -> "OpenAI"
      [] provider_type = "google_gemini" -> "Google Gemini"
      [] provider_type = "lm_studio" -> "LM Studio"
      [] provider_type = "ollama" -> "Ollama"
      [] OTHER -> provider_type

\* AIResponse, reduced to success, error, provider and the two metadata
\* entries the Router writes: the flag (metadata) and provider_display_name
NoResponse ==
    [success |-> FALSE, error |-> None, provider |-> None, metadata |-> "pending",
     provider_display_name |-> None]

\* the return after the loop as it would be if it named the last backend of
\* the chain
all_failed_response_last_of_chain(rq) ==
    LET last == rq.providers_to_try[Len(rq.providers_to_try)]
    IN [success |-> FALSE,
        error |-> IF rq.last_error # None THEN rq.last_error ELSE "All AI providers failed",
        provider |-> last,
        metadata |-> "all_providers_failed",
        provider_display_name |-> get_provider_display_name(last)]

\* the method as it would be if it ended after the loop without a return
no_response_after_loop(rq) == NoResponse

\* the return after the loop (lines 290-299, 463-472)
all_failed_response(rq) ==
    [success |-> FALSE,
     error |-> IF rq.last_error # None THEN rq.last_error ELSE "All AI providers failed",
     provider |-> rq.last_provider,
     metadata |-> "all_providers_failed",
     provider_display_name |-> IF rq.last_provider # None
                               THEN get_provider_display_name(rq.last_provider)
                               ELSE None]

\* the step below as it would be if the loop went over the chain again from
\* its first candidate after a failure
next_candidate_from_start(rq) ==
    IF rq.i + 1 > Len(rq.providers_to_try)
    THEN [rq EXCEPT !.pc = "done", !.i = @ + 1, !.response = all_failed_response(rq)]
    ELSE [rq EXCEPT !.i = 1]

\* move to the next candidate, or return when the chain is exhausted
next_candidate(rq) ==
    IF rq.i + 1 > Len(rq.providers_to_try)
    THEN [rq EXCEPT !.pc = "done", !.i = @ + 1, !.response = all_failed_response(rq)]
    ELSE [rq EXCEPT !.i = @ + 1]

\* a content string: its stripped text between leading and trailing blanks,
\* each by its length
Contents ==
    {[blanks_before |-> a, text |-> n, blanks_after |-> b] :
        a \in 0..1, n \in 0..MaxContent, b \in 0..1}

len(content) == content.blanks_before + content.text + content.blanks_after

strip(content) == [content EXCEPT !.blanks_before = 0, !.blanks_after = 0]

\* the length tested as it would be without the strip
content_length_unstripped(content) == len(content)

\* content_length = len(content.strip()) if content else 0
content_length(content) == IF len(content) = 0 THEN 0 ELSE len(strip(content))

\* a content that passes the length test of every adapter
LongContent == [blanks_before |-> 0, text |-> MaxContent, blanks_after |-> 0]

\* the handle_error call the thread of a request is in: where it is, its
\* arguments, and the locals and temporaries it has read so far
NoFrame ==
    [pc |-> "none", error_msg |-> None, provider |-> None, count |-> 0,
     failures |-> 0, delta |-> 0, current_health |-> 0]

\* the locals of generate_questions_batch: the list handed in, the provider
\* picked for it and the results appended so far
NoBatch == [content_list |-> <<>>, provider_to_use |-> None, results |-> <<>>]

\* the call of an adapter's generate_question_answer_pair a request is in:
\* max_retries is config.max_retries as the call finds it and response what
\* the method returns, an AIResponse or, when it ends without a return, the
\* value None, which has none of the fields; network_calls counts the
\* calls made to the backend, sleeps lists the seconds slept and last_outcome
\* is what the latest call to the backend came back with (history)
NoResult == [value |-> "None", success |-> FALSE, error |-> None, provider |-> None]

NoAdapterCall ==
    [pc |-> "none", provider |-> None, content |-> None, max_retries |-> 0,
     attempt |-> 0, network_calls |-> 0, sleeps |-> <<>>, last_outcome |-> None,
     response |-> NoResult]

\* the call of _extract_json_from_text a request is in: its argument, the
\* locals of the scan, and what it returns
NoScan ==
    [pc |-> "none", text |-> <<>>, start_idx |-> 0, i |-> 0, brace_count |-> 0,
     in_string |-> FALSE, escape_next |-> FALSE, closed |-> FALSE, result |-> <<>>]

IdleRequest ==
    [pc |-> "idle", kind |-> "generate_question", content |-> LongContent,
     preferred_provider |-> None,
     preferred_model |-> 0, temperature |-> 0, max_tokens |-> 0, top_p |-> 0,
     disable_fallback |-> FALSE, providers_to_try |-> <<>>, i |-> 0,
     last_error |-> None, last_provider |-> None, original |-> BaseConfig,
     response |-> NoResponse, frame |-> NoFrame, batch |-> NoBatch,
     adapter |-> NoAdapterCall, scan |-> NoScan,
     \* history, not program state
     log |-> <<>>, registry_at_start |-> {}, last_call_error |-> None,
     config_at_start |-> [p \in AIProviderType |-> BaseConfig]]

InFlight(r) == req[r].pc \in {"loop", "called"}

\* a finished call hands its response to the caller before anything else is
\* looked at: Return only forgets the call's locals
NoneDone == \A r \in Reqs : req[r].pc # "done"

\* the override values request r may pass
OverrideChoices(r, kind) ==
    IF kind = "generate_question"
    THEN {[preferred_model |-> m, temperature |-> 0, max_tokens |-> 0, top_p |-> 0] :
              m \in {0, r}}
    ELSE {[preferred_model |-> 0, temperature |-> 0, max_tokens |-> 0, top_p |-> 0],
          [preferred_model |-> r, temperature |-> 0, max_tokens |-> 0, top_p |-> 0],
          [preferred_model |-> r, temperature |-> r, max_tokens |-> r, top_p |-> r]}

\* what the step just taken handed back to a caller of the tracker's own
\* interface: the ErrorInfo of handle_error with the call's arguments, NoCall
\* after every other step; the Router keeps the ErrorInfo of its calls in a
\* local of the loop
NoInfo == [severity |-> "none", should_fallback |-> FALSE, retry_delay |-> 0]
NoCall == [op |-> "none", provider |-> None, msg |-> None, info |-> NoInfo]

\* ---------------------------------------------------------------- state
Init ==
    /\ services = {}
    /\ provider_status = [p \in AIProviderType |-> "none"]
    /\ primary_provider = None
    /\ fallback_order = <<>>
    /\ config = [p \in AIProviderType |-> BaseConfig]
    /\ error_handler = [provider_health |-> [p \in AIProviderType |-> Absent],
                        error_counts |-> [p \in AIProviderType |-> 0],
                        last_error_time |-> [p \in AIProviderType |-> Absent],
                        consecutive_failures |-> [p \in AIProviderType |-> 0]]
    /\ now = Epoch
    /\ req = [r \in Reqs |-> IdleRequest]
    /\ returned = NoCall

\* -------------------------------------------------------------- actions
\* the test below as it would be if everything but an exception registered
initialize_succeeds_unless_raises(init) == init # "raise"

\* `success = await service.initialize()` inside the try: init is what
\* initialize() of the new adapter does, "ok" (returns True), "fail" (returns
\* False) or "raise"; only a True return takes the registering branch
initialize_succeeds(init) == init = "ok"

\* initialize_providers(configs); configs[p] is what initialize() of p does
initialize_providers(configs) ==
    /\ NoneDone
    /\ \A r \in Reqs : ~InFlight(r)
    /\ LET ok == {p \in DOMAIN configs : initialize_succeeds(configs[p])}
           status == [p \in AIProviderType |->
                         IF p \in ok THEN "available"
                         ELSE IF p \in DOMAIN configs THEN "error"
                         ELSE provider_status[p]]
           prio == set_provider_priority(status, error_handler, now,
                      [primary_provider |-> primary_provider,
                       fallback_order |-> fallback_order])
       IN /\ services' = services \cup ok
          /\ provider_status' = status
          /\ config' = [p \in AIProviderType |-> IF p \in ok THEN BaseConfig ELSE config[p]]
          /\ primary_provider' = prio.primary_provider
          /\ fallback_order' = prio.fallback_order
    /\ UNCHANGED <<error_handler, now, req, returned>>

\* ensure_provider_initialized as it would be if it ran initialize() again for
\* a provider that is registered
ensure_effect_initializes_again(registry, status, configs, provider_type, cfg, init) ==
    IF initialize_succeeds(init)
    THEN [services |-> registry \cup {provider_type},
          provider_status |-> [status EXCEPT ![provider_type] = "available"],
          config |-> [configs EXCEPT ![provider_type] = cfg],
          result |-> TRUE]
    ELSE [services |-> registry,
          provider_status |-> [status EXCEPT ![provider_type] = "error"],
          config |-> configs,
          result |-> FALSE]

\* ensure_provider_initialized(provider_type, config): what it leaves of the
\* registry, the statuses and the configs, and what it returns. A registered
\* service gets the config object handed in; an unregistered one is created
\* with it and initialized, init being what initialize() does.
ensure_effect(registry, status, configs, provider_type, cfg, init) ==
    IF provider_type \in registry
    THEN [services |-> registry,
          provider_status |-> [status EXCEPT ![provider_type] = "available"],
          config |-> [configs EXCEPT ![provider_type] = cfg],
          result |-> TRUE]
    ELSE IF initialize_succeeds(init)
    THEN [services |-> registry \cup {provider_type},
          provider_status |-> [status EXCEPT ![provider_type] = "available"],
          config |-> [configs EXCEPT ![provider_type] = cfg],
          result |-> TRUE]
    ELSE [services |-> registry,
          provider_status |-> [status EXCEPT ![provider_type] = "error"],
          config |-> configs,
          result |-> FALSE]

\* the call of ensure_provider_initialized; the priority is not computed again
ensure_provider_initialized(provider_type, cfg, init) ==
    /\ NoneDone
    /\ LET effect == ensure_effect(services, provider_status, config,
                                   provider_type, cfg, init)
       IN /\ services' = effect.services
          /\ provider_status' = effect.provider_status
          /\ config' = effect.config
    /\ UNCHANGED <<primary_provider, fallback_order, error_handler, now, req, returned>>

\* time passes
Tick ==
    /\ NoneDone
    /\ now < Epoch + MaxTime
    /\ now' = now + 1
    /\ UNCHANGED <<services, provider_status, primary_provider, fallback_order,
                   config, error_handler, req, returned>>

\* entry of generate_question / generate_question_answer_pair up to the loop
Call(r, content, kind, preferred_provider, ov, disable_fallback) ==
    /\ NoneDone
    /\ req[r].pc = "idle"
    /\ \A q \in Reqs : q < r => req[q].pc # "idle"
    /\ LET chain == providers_to_try(services, primary_provider, fallback_order,
                                     preferred_provider, disable_fallback)
           rq == [IdleRequest EXCEPT
                     !.kind = kind,
                     !.content = content,
                     !.preferred_provider = preferred_provider,
                     !.preferred_model = ov.preferred_model,
                     !.temperature = ov.temperature,
                     !.max_tokens = ov.max_tokens,
                     !.top_p = ov.top_p,
                     !.disable_fallback = disable_fallback,
                     !.providers_to_try = chain,
                     !.registry_at_start = services,
                     !.config_at_start = config]
       IN req' = [req EXCEPT ![r] =
             IF disable_fallback /\ chain = <<>>
             THEN [rq EXCEPT !.pc = "done",
                      !.response = [success |-> FALSE,
                          error |-> "Preferred provider not available and fallback is disabled",
                          provider |-> None, metadata |-> "none",
                          provider_display_name |-> None]]
             ELSE IF chain = <<>>
             THEN [rq EXCEPT !.pc = "done",
                      !.response = [success |-> FALSE,
                          error |-> "No AI providers available",
                          provider |-> None, metadata |-> "none",
                          provider_display_name |-> None]]
             ELSE [rq EXCEPT !.pc = "loop", !.i = 1]]
    /\ UNCHANGED <<services, provider_status, primary_provider, fallback_order,
                   config, error_handler, now, returned>>

\* a call with a content every adapter accepts
Start(r, kind, preferred_provider, ov, disable_fallback) ==
    Call(r, LongContent, kind, preferred_provider, ov, disable_fallback)

\* a candidate without a service or not usable is skipped
Skip(r) ==
    /\ NoneDone
    /\ req[r].pc = "loop"
    /\ ~candidate_eligible(services, error_handler, req[r].providers_to_try[req[r].i], now)
    /\ req' = [req EXCEPT ![r] = next_candidate(req[r])]
    /\ UNCHANGED <<services, provider_status, primary_provider, fallback_order,
                   config, error_handler, now, returned>>

\* the candidate is usable: save the config, write the overrides, call the adapter
Dispatch(r) ==
    LET rq == req[r]
        provider_type == rq.providers_to_try[rq.i]
    IN /\ NoneDone
       /\ rq.pc = "loop"
       /\ candidate_eligible(services, error_handler, provider_type, now)
       /\ config' = [config EXCEPT ![provider_type] = apply_overrides(rq, @)]
       /\ req' = [req EXCEPT ![r] =
             [rq EXCEPT !.pc = "called",
                        !.original = config[provider_type],
                        !.log = Append(@, [provider |-> provider_type,
                                           outcome |-> "pending",
                                           usable |-> should_use_provider(error_handler,
                                                         provider_type, now),
                                           used |-> BaseConfig,
                                           severity |-> "none"])]]
       /\ UNCHANGED <<services, provider_status, primary_provider, fallback_order,
                      error_handler, now, returned>>

\* the adapter call ends: outcome "ok", "fail" (a failure response with
\* error text msg) or "raise" (an exception with text msg)
Respond(r, outcome, msg) ==
    LET rq == req[r]
        provider_type == rq.providers_to_try[rq.i]
        info == handle_error_info(error_handler, msg, provider_type)
        ctl == after_call(rq.kind, outcome, rq.disable_fallback, info)
        entry == [rq.log[Len(rq.log)] EXCEPT
                     !.outcome = outcome,
                     !.used = config[provider_type],
                     !.severity = IF reports_failure(rq.kind, outcome, rq.disable_fallback)
                                  THEN info.severity ELSE "none"]
        rq1 == [rq EXCEPT !.pc = "loop",
                          !.log = [@ EXCEPT ![Len(rq.log)] = entry],
                          !.last_call_error = msg,
                          !.last_provider = provider_type,
                          !.last_error = IF outcome = "ok" THEN @ ELSE msg]
    IN /\ NoneDone
       /\ rq.pc = "called"
       /\ config' = [config EXCEPT ![provider_type] =
                        restore_config(rq.kind, @, rq.original)]
       /\ error_handler' =
             IF reports_failure(rq.kind, outcome, rq.disable_fallback)
             THEN handle_error(error_handler, msg, provider_type, now)
             ELSE IF reports_success(rq.kind, outcome)
             THEN handle_success(error_handler, provider_type)
             ELSE error_handler
       /\ provider_status' =
             IF marks_status_error(rq.kind, outcome, rq.disable_fallback)
             THEN [provider_status EXCEPT ![provider_type] = "error"]
             ELSE provider_status
       /\ req' = [req EXCEPT ![r] =
             IF ctl = "return" /\ outcome = "ok"
             THEN [rq1 EXCEPT !.pc = "done",
                      !.response = [success |-> TRUE, error |-> None,
                                    provider |-> provider_type, metadata |-> "none",
                                    provider_display_name |-> None]]
             ELSE IF ctl = "return"
             THEN [rq1 EXCEPT !.pc = "done",
                      !.response = [success |-> FALSE, error |-> msg,
                                    provider |-> provider_type,
                                    metadata |-> "disable_fallback",
                                    provider_display_name |->
                                        get_provider_display_name(provider_type)]]
             ELSE IF ctl = "break"
             THEN [rq1 EXCEPT !.pc = "done", !.response = all_failed_response(rq1)]
             ELSE next_candidate(rq1)]
       /\ UNCHANGED <<services, primary_provider, fallback_order, now, returned>>

\* the caller takes the response
Return(r) ==
    /\ req[r].pc = "done"
    /\ req' = [req EXCEPT ![r] = [IdleRequest EXCEPT !.pc = "returned"]]
    /\ UNCHANGED <<services, provider_status, primary_provider, fallback_order,
                   config, error_handler, now, returned>>

\* a call made while no other call is running
StartAlone(r, kind, preferred_provider, ov, disable_fallback) ==
    /\ \A q \in Reqs : ~InFlight(q)
    /\ Start(r, kind, preferred_provider, ov, disable_fallback)

\* the manager is set up once, when the process starts
startup(configs) ==
    /\ services = {}
    /\ \A p \in AIProviderType : provider_status[p] = "none"
    /\ initialize_providers(configs)

\* what initialize() of an adapter does
InitOutcomes == {"ok", "fail", "raise"}

\* calls made one after the other, providers added on demand, time passing
Next ==
    \/ \E S \in SUBSET ConfiguredKinds : \E configs \in [S -> InitOutcomes] :
          startup(configs)
    \/ \E p \in ConfiguredKinds : \E init \in InitOutcomes :
          ensure_provider_initialized(p, BaseConfig, init)
    \/ Tick
    \/ \E r \in Reqs : \E kind \in Kinds : \E pp \in ConfiguredKinds \cup {None} :
          \E ov \in OverrideChoices(r, kind) : \E df \in BOOLEAN :
             StartAlone(r, kind, pp, ov, df)
    \/ \E r \in Reqs : Return(r)
    \/ \E r \in Reqs : Skip(r)
    \/ \E r \in Reqs : Dispatch(r)
    \/ \E r \in Reqs : Respond(r, "ok", None)
    \/ \E r \in Reqs : \E outcome \in {"fail", "raise"} : \E msg \in AdapterErrors :
          Respond(r, outcome, msg)

Spec == Init /\ [][Next]_vars

\* calls running on several threads at once against the registry set up at
\* start
NextConcurrent ==
    \/ \E S \in SUBSET ConfiguredKinds : \E configs \in [S -> InitOutcomes] :
          startup(configs)
    \/ \E r \in Reqs : \E kind \in Kinds : \E pp \in ConfiguredKinds \cup {None} :
          \E ov \in OverrideChoices(r, kind) : \E df \in BOOLEAN :
             Start(r, kind, pp, ov, df)
    \/ \E r \in Reqs : Return(r)
    \/ \E r \in Reqs : Skip(r)
    \/ \E r \in Reqs : Dispatch(r)
    \/ \E r \in Reqs : Respond(r, "ok", None)
    \/ \E r \in Reqs : \E outcome \in {"fail", "raise"} : \E msg \in AdapterErrors :
          Respond(r, outcome, msg)

SpecConcurrent == Init /\ [][NextConcurrent]_vars

\* calls without overrides running on several threads at once, every failure
\* one with the generic error text: the interleavings of the loops and of
\* what they do to the tracker
NoOverrides == [preferred_model |-> 0, temperature |-> 0, max_tokens |-> 0, top_p |-> 0]

NextInterleaved ==
    \/ \E S \in SUBSET ConfiguredKinds : \E configs \in [S -> InitOutcomes] :
          startup(configs)
    \/ \E r \in Reqs : \E kind \in Kinds : \E pp \in ConfiguredKinds \cup {None} :
          \E df \in BOOLEAN :
             Start(r, kind, pp, NoOverrides, df)
    \/ \E r \in Reqs : Return(r)
    \/ \E r \in Reqs : Skip(r)
    \/ \E r \in Reqs : Dispatch(r)
    \/ \E r \in Reqs : Respond(r, "ok", None)
    \/ \E r \in Reqs : \E outcome \in {"fail", "raise"} :
          Respond(r, outcome, "internal server error")

SpecInterleaved == Init /\ [][NextInterleaved]_vars

\* calls without overrides made one after the other while providers are
\* registered, and their configs replaced, on demand; a config can be
\* replaced while a call is out
NextHotSwap ==
    \/ \E S \in SUBSET ConfiguredKinds : \E configs \in [S -> InitOutcomes] :
          startup(configs)
    \/ \E p \in ConfiguredKinds : \E cfg \in ConfigChoices : \E init \in InitOutcomes :
          ensure_provider_initialized(p, cfg, init)
    \/ \E r \in Reqs : \E kind \in Kinds : \E pp \in ConfiguredKinds \cup {None} :
          \E df \in BOOLEAN :
             StartAlone(r, kind, pp, NoOverrides, df)
    \/ \E r \in Reqs : Return(r)
    \/ \E r \in Reqs : Skip(r)
    \/ \E r \in Reqs : Dispatch(r)
    \/ \E r \in Reqs : Respond(r, "ok", None)
    \/ \E r \in Reqs : \E outcome \in {"fail", "raise"} :
          Respond(r, outcome, "internal server error")

SpecHotSwap == Init /\ [][NextHotSwap]_vars

\* ------------------------------------------------ generate_questions_batch
\* the content items a batch can hold, and the lists of them
Items == {"a", "b"}

ContentLists == UNION {[1..n -> Items] : n \in 0..MaxItems}

\* the choice below as it would be if the preferred provider were not looked at
batch_provider_choices_any(registry, primary, preferred_provider) == registry

\* the providers the batch can end up with: `preferred_provider or
\* self._primary_provider` if that is registered, else
\* next(iter(self._services.keys())); the registry is kept as a set, so the
\* first key of the dictionary is any registered provider
batch_provider_choices(registry, primary, preferred_provider) ==
    LET provider_to_use == IF preferred_provider # None THEN preferred_provider
                           ELSE primary
    IN IF provider_to_use # None /\ provider_to_use \in registry
       THEN {provider_to_use}
       ELSE registry

\* an item the batch did not touch, as it is in the list handed in
untouched(item) == [item |-> item, question_generated |-> None, ai_provider |-> None]

\* generate_questions_batch of the manager up to the loop of the adapter:
\* without services the list handed in is returned as it is
batch_start(r, content_list, preferred_provider, preferred_model) ==
    /\ NoneDone
    /\ req[r].pc = "idle"
    /\ \A q \in Reqs : q < r => req[q].pc # "idle"
    /\ \A q \in Reqs : req[q].pc # "batch"
    /\ LET rq == [IdleRequest EXCEPT
                     !.kind = "generate_questions_batch",
                     !.preferred_provider = preferred_provider,
                     !.preferred_model = preferred_model,
                     !.registry_at_start = services,
                     !.config_at_start = config,
                     !.batch.content_list = content_list]
       IN IF services = {}
          THEN /\ req' = [req EXCEPT ![r] =
                     [rq EXCEPT !.pc = "done",
                                !.batch.results = [k \in 1..Len(content_list) |->
                                                      untouched(content_list[k])]]]
               /\ UNCHANGED config
          ELSE \E provider_to_use \in batch_provider_choices(services, primary_provider,
                                                             preferred_provider) :
                  /\ req' = [req EXCEPT ![r] =
                        [rq EXCEPT !.pc = "batch", !.i = 1,
                                   !.batch.provider_to_use = provider_to_use,
                                   !.original = config[provider_to_use]]]
                  /\ config' = [config EXCEPT ![provider_to_use].model_name =
                                   IF preferred_model # 0 THEN preferred_model ELSE @]
    /\ UNCHANGED <<services, provider_status, primary_provider, fallback_order,
                   error_handler, now, returned>>

\* one turn of the loop of BaseAIService.generate_questions_batch: the
\* adapter's generate_question for the item and the result appended
batch_item(r, outcome) ==
    LET rq == req[r]
        item == rq.batch.content_list[rq.i]
    IN /\ rq.pc = "batch"
       /\ rq.i <= Len(rq.batch.content_list)
       /\ req' = [req EXCEPT ![r] =
             [rq EXCEPT !.i = @ + 1,
                        !.log = Append(@, [provider |-> rq.batch.provider_to_use,
                                           item |-> item, outcome |-> outcome]),
                        !.batch.results = Append(@,
                            [item |-> item,
                             question_generated |-> (outcome = "ok"),
                             ai_provider |-> rq.batch.provider_to_use])]]
       /\ UNCHANGED <<services, provider_status, primary_provider, fallback_order,
                      config, error_handler, now, returned>>

\* the loop is over: the model name is written back and the results returned
batch_end(r) ==
    LET rq == req[r]
    IN /\ rq.pc = "batch"
       /\ rq.i > Len(rq.batch.content_list)
       /\ config' = [config EXCEPT ![rq.batch.provider_to_use].model_name =
                        rq.original.model_name]
       /\ req' = [req EXCEPT ![r].pc = "done"]
       /\ UNCHANGED <<services, provider_status, primary_provider, fallback_order,
                      error_handler, now, returned>>

NextBatch ==
    \/ \E S \in SUBSET ConfiguredKinds : \E configs \in [S -> InitOutcomes] :
          startup(configs)
    \/ \E p \in ConfiguredKinds : \E init \in InitOutcomes :
          ensure_provider_initialized(p, BaseConfig, init)
    \/ \E r \in Reqs : \E content_list \in ContentLists :
          \E pp \in ConfiguredKinds \cup {None} : \E m \in {0, r} :
             batch_start(r, content_list, pp, m)
    \/ \E r \in Reqs : \E outcome \in {"ok", "fail"} : batch_item(r, outcome)
    \/ \E r \in Reqs : batch_end(r)
    \/ \E r \in Reqs : Return(r)

SpecBatch == Init /\ [][NextBatch]_vars

\* ------------------------------------------- calls on the Health Tracker
\* the Router's state, left alone by the calls on the tracker
router == <<services, provider_status, primary_provider, fallback_order, config, req>>

\* error_handler.handle_error(Exception(msg), provider)
record_failure(provider, msg) ==
    /\ error_handler.error_counts[provider] < MaxErrors
    /\ error_handler' = handle_error(error_handler, msg, provider, now)
    /\ returned' = [op |-> "handle_error", provider |-> provider, msg |-> msg,
                    info |-> handle_error_info(error_handler, msg, provider)]
    /\ UNCHANGED <<router, now>>

\* error_handler.handle_success(provider)
record_success(provider) ==
    /\ error_handler' = handle_success(error_handler, provider)
    /\ returned' = NoCall
    /\ UNCHANGED <<router, now>>

\* error_handler.reset_provider_health(provider)
reset(provider) ==
    /\ error_handler' = reset_provider_health(error_handler, provider)
    /\ returned' = NoCall
    /\ UNCHANGED <<router, now>>

\* ai_service_manager.reset_provider_health(provider_type)
manager_reset(provider_type) ==
    /\ error_handler' = manager_reset_provider_health(error_handler, provider_type)
    /\ returned' = NoCall
    /\ UNCHANGED <<router, now>>

\* error_handler.decay_health_over_time()
decay ==
    /\ error_handler' = decay_health_over_time(error_handler, now)
    /\ returned' = NoCall
    /\ UNCHANGED <<router, now>>

TicksPerHour == 3600 \div SecondsPerTick

\* one tick passes
Wait ==
    /\ (now - Epoch) % TicksPerHour < MaxWait
    /\ now' = now + 1
    /\ returned' = NoCall
    /\ UNCHANGED <<router, error_handler>>

\* an hour passes
HourPasses ==
    /\ (now - Epoch) \div TicksPerHour < MaxHours
    /\ now' = now + TicksPerHour
    /\ returned' = NoCall
    /\ UNCHANGED <<router, error_handler>>

\* the providers the tracker is called for
TrackedKinds == {"openai"}

NextTracker ==
    \/ \E p \in TrackedKinds : \E msg \in ErrorTexts : record_failure(p, msg)
    \/ \E p \in TrackedKinds : record_success(p)
    \/ \E p \in TrackedKinds \cup {None} : reset(p)
    \/ \E p \in TrackedKinds \cup {None} : manager_reset(p)
    \/ decay
    \/ Wait
    \/ HourPasses

SpecTracker == Init /\ [][NextTracker]_vars

\* failures of one provider with every error text, those with the words of
\* two categories among them, up to the exhaustion of the consecutive failures
NextClassify ==
    \/ \E p \in TrackedKinds : \E msg \in ErrorTexts \cup MixedTexts :
          record_failure(p, msg)
    \/ \E p \in TrackedKinds : record_success(p)
    \/ Wait

SpecClassify == Init /\ [][NextClassify]_vars

\* the tracker called for two providers in turn, with the two error texts of
\* the deployment
IsolationKinds == {"openai", "google_gemini"}

NextIsolation ==
    \/ \E p \in IsolationKinds : \E msg \in AdapterErrors :
          error_handler.error_counts[p] < MaxFailures /\ record_failure(p, msg)
    \/ \E p \in IsolationKinds : record_success(p)
    \/ \E p \in IsolationKinds : reset(p)
    \/ Wait

SpecIsolation == Init /\ [][NextIsolation]_vars

\* ------------------------------------ the registry set up more than once
\* initialize_providers called again while failures are recorded and time
\* passes: the priority is computed from whatever the tracker holds then
NextPriority ==
    \/ \E S \in SUBSET ConfiguredKinds : \E configs \in [S -> InitOutcomes] :
          initialize_providers(configs)
    \/ \E p \in ConfiguredKinds : \E msg \in AdapterErrors :
          /\ error_handler.error_counts[p] < MaxFailures
          /\ record_failure(p, msg)
    \/ Wait

SpecPriority == Init /\ [][NextPriority]_vars

\* ------------------------------- handle_error run by threads, unlocked
\* The request handlers run on the threads of the server, each with an event
\* loop of its own, and call the one tracker of the process; handle_error
\* takes no lock, so a thread can be switched out between any two of its
\* reads and writes of the tracker's dictionaries.
router_but_req == <<services, provider_status, primary_provider, fallback_order, config>>

at(r, pc) == req[r].frame.pc = pc

goto(r, frame) == req' = [req EXCEPT ![r].frame = frame]

\* the thread of r enters handle_error(Exception(msg), provider)
call_handle_error(r, provider, msg) ==
    /\ at(r, "none")
    /\ goto(r, [NoFrame EXCEPT !.pc = "read_error_counts", !.error_msg = msg,
                               !.provider = provider])
    /\ UNCHANGED <<router_but_req, error_handler, now, returned>>

\* self.error_counts.get(provider, 0)
read_error_counts(r) ==
    /\ at(r, "read_error_counts")
    /\ goto(r, [req[r].frame EXCEPT !.pc = "write_error_counts",
                    !.count = error_handler.error_counts[req[r].frame.provider]])
    /\ UNCHANGED <<router_but_req, error_handler, now, returned>>

\* self.error_counts[provider] = ... + 1
write_error_counts(r) ==
    /\ at(r, "write_error_counts")
    /\ error_handler' = [error_handler EXCEPT
                            !.error_counts[req[r].frame.provider] = req[r].frame.count + 1]
    /\ goto(r, [req[r].frame EXCEPT !.pc = "write_last_error_time"])
    /\ UNCHANGED <<router_but_req, now, returned>>

\* self.last_error_time[provider] = current_time
write_last_error_time(r) ==
    /\ at(r, "write_last_error_time")
    /\ error_handler' = [error_handler EXCEPT
                            !.last_error_time[req[r].frame.provider] = now]
    /\ goto(r, [req[r].frame EXCEPT !.pc = "read_consecutive_failures"])
    /\ UNCHANGED <<router_but_req, now, returned>>

\* self.consecutive_failures.get(provider, 0)
read_consecutive_failures(r) ==
    /\ at(r, "read_consecutive_failures")
    /\ goto(r, [req[r].frame EXCEPT !.pc = "write_consecutive_failures",
                    !.failures = error_handler.consecutive_failures[req[r].frame.provider]])
    /\ UNCHANGED <<router_but_req, error_handler, now, returned>>

\* self.consecutive_failures[provider] = ... + 1
write_consecutive_failures(r) ==
    /\ at(r, "write_consecutive_failures")
    /\ error_handler' = [error_handler EXCEPT
                            !.consecutive_failures[req[r].frame.provider] =
                                req[r].frame.failures + 1]
    /\ goto(r, [req[r].frame EXCEPT !.pc = "classify"])
    /\ UNCHANGED <<router_but_req, now, returned>>

\* the if/elif chain, which reads the counter again, up to the call of
\* _update_health with the delta of the branch taken
classify(r) ==
    /\ at(r, "classify")
    /\ goto(r, [req[r].frame EXCEPT !.pc = "read_health",
                    !.delta = HealthDelta(ErrorCategory(req[r].frame.error_msg,
                        error_handler.consecutive_failures[req[r].frame.provider]))])
    /\ UNCHANGED <<router_but_req, error_handler, now, returned>>

\* _update_health: current_health = self.provider_health.get(provider, 1.0)
read_health(r) ==
    /\ at(r, "read_health")
    /\ goto(r, [req[r].frame EXCEPT !.pc = "write_health",
                    !.current_health = get_provider_health(error_handler,
                                           req[r].frame.provider)])
    /\ UNCHANGED <<router_but_req, error_handler, now, returned>>

\* _update_health: self.provider_health[provider] = new_health, and the return
write_health(r) ==
    /\ at(r, "write_health")
    /\ error_handler' = [error_handler EXCEPT
                            !.provider_health[req[r].frame.provider] =
                                MaxOf(0, MinOf(One, req[r].frame.current_health
                                                       + req[r].frame.delta))]
    /\ goto(r, [req[r].frame EXCEPT !.pc = "returned"])
    /\ UNCHANGED <<router_but_req, now, returned>>

NextThreads ==
    \/ \E r \in Reqs : \E p \in TrackedKinds : \E msg \in ErrorTexts :
          call_handle_error(r, p, msg)
    \/ \E r \in Reqs : read_error_counts(r)
    \/ \E r \in Reqs : write_error_counts(r)
    \/ \E r \in Reqs : write_last_error_time(r)
    \/ \E r \in Reqs : read_consecutive_failures(r)
    \/ \E r \in Reqs : write_consecutive_failures(r)
    \/ \E r \in Reqs : classify(r)
    \/ \E r \in Reqs : read_health(r)
    \/ \E r \in Reqs : write_health(r)

SpecThreads == Init /\ [][NextThreads]_vars

\* ------------------------------ an adapter's generate_question_answer_pair
\* the handle an adapter tests before anything else; ollama tests none, and
\* lm_studio makes sure of a session for the running event loop first
handle_missing_text(provider) ==
    CASE provider = "openai" -> "Client not initialized"
      [] provider = "google_gemini" -> "Model not initialized"
      [] provider = "lm_studio" -> "Session not initialized"
      [] OTHER -> None

\* a handle is set by the initialize() that registered the adapter
handle_set(registry, provider) == provider \in registry

\* the entry of generate_question_answer_pair up to the retry loop: the
\* failure it returns at once, or None when the loop is entered
entry_failure(registry, provider, content) ==
    IF handle_missing_text(provider) # None /\ ~handle_set(registry, provider)
    THEN handle_missing_text(provider)
    ELSE IF len(content) = 0 \/ content_length(content) < 10
    THEN "Content too short for question generation"
    ELSE None

\* the adapter of a registered provider is called with a content; retries is
\* the max_retries of its config
adapter_call(r, provider, content, retries) ==
    /\ \A q \in Reqs : req[q].adapter.pc = "none"
    /\ provider \in services
    /\ req' = [req EXCEPT ![r].adapter =
          [NoAdapterCall EXCEPT !.pc = "entered", !.provider = provider,
                                !.content = content, !.max_retries = retries]]
    /\ UNCHANGED <<router_but_req, error_handler, now, returned>>

\* the tests at the head of the method
adapter_entry(r) ==
    LET a == req[r].adapter
        failure == entry_failure(services, a.provider, a.content)
    IN /\ a.pc = "entered"
       /\ req' = [req EXCEPT ![r].adapter =
             IF failure # None
             THEN [a EXCEPT !.pc = "returned",
                            !.response = [value |-> "AIResponse", success |-> FALSE,
                                          error |-> failure, provider |-> a.provider]]
             ELSE [a EXCEPT !.pc = "attempt"]]
       /\ UNCHANGED <<router_but_req, error_handler, now, returned>>

\* what a call to the backend can come back with: a usable response ("ok"),
\* an empty one, one that cannot be parsed, an exception that another try
\* could get past ("timeout") or could not ("authentication"), and, for the
\* two adapters that post over HTTP themselves, a status other than 200
AttemptOutcomes == {"ok", "empty", "unparseable", "timeout", "authentication", "http_error"}

outcome_possible(provider, outcome) ==
    outcome = "http_error" => provider \in {"lm_studio", "ollama"}

\* the error text of the failure returned for the outcome of the last attempt
failure_text(outcome) ==
    CASE outcome = "empty" -> "No response content received"
      [] outcome = "unparseable" -> "Failed to parse JSON response"
      [] outcome = "timeout" -> "connection timeout"
      [] outcome = "authentication" -> "401 unauthorized"
      [] OTHER -> "HTTP 500"

\* 2 ** attempt
RECURSIVE Pow2(_)
Pow2(n) == IF n = 0 THEN 1 ELSE 2 * Pow2(n - 1)

\* the test below as it would be if only an empty or unparseable response or
\* a timeout were tried again
tried_again_transient_only(outcome, attempt, retries) ==
    /\ outcome \in {"empty", "unparseable", "timeout"}
    /\ attempt < retries - 1

\* `if attempt < self.config.max_retries - 1`, the one test made in every
\* branch that did not get a usable response
tried_again(outcome, attempt, retries) == attempt < retries - 1

\* the retry loop is left without having run, or after its last turn fell
\* through: the method ends without a return statement
adapter_falls_through(r) ==
    LET a == req[r].adapter
    IN /\ a.pc = "attempt"
       /\ a.attempt >= a.max_retries
       /\ req' = [req EXCEPT ![r].adapter = [a EXCEPT !.pc = "returned", !.response = NoResult]]
       /\ UNCHANGED <<router_but_req, error_handler, now, returned>>

\* one turn of `for attempt in range(self.config.max_retries)`: the call to
\* the backend and what is done with what comes back; an exception of the
\* last turn is raised again and turned into a failure by the outer except
adapter_attempt(r, outcome) ==
    LET a == req[r].adapter
        called == [a EXCEPT !.network_calls = @ + 1, !.last_outcome = outcome]
    IN /\ a.pc = "attempt"
       /\ a.attempt < a.max_retries
       /\ outcome_possible(a.provider, outcome)
       /\ req' = [req EXCEPT ![r].adapter =
             IF outcome = "ok"
             THEN [called EXCEPT !.pc = "returned",
                                 !.response = [value |-> "AIResponse", success |-> TRUE,
                                               error |-> None, provider |-> a.provider]]
             ELSE IF tried_again(outcome, a.attempt, a.max_retries)
             THEN [called EXCEPT !.attempt = @ + 1,
                                 !.sleeps = Append(@, Pow2(a.attempt))]
             ELSE [called EXCEPT !.pc = "returned",
                                 !.response = [value |-> "AIResponse", success |-> FALSE,
                                               error |-> failure_text(outcome),
                                               provider |-> a.provider]]]
       /\ UNCHANGED <<router_but_req, error_handler, now, returned>>

\* the caller has the response
adapter_return(r) ==
    /\ req[r].adapter.pc = "returned"
    /\ req' = [req EXCEPT ![r].adapter = NoAdapterCall]
    /\ UNCHANGED <<router_but_req, error_handler, now, returned>>

NextAdapter ==
    \/ \E S \in SUBSET ConfiguredKinds : \E configs \in [S -> InitOutcomes] :
          startup(configs)
    \/ \E p \in AIProviderType : \E init \in InitOutcomes :
          ensure_provider_initialized(p, BaseConfig, init)
    \/ \E r \in Reqs : \E p \in AIProviderType : \E content \in Contents :
          adapter_call(r, p, content, max_retries)
    \/ \E r \in Reqs : adapter_entry(r)
    \/ \E r \in Reqs : \E outcome \in AttemptOutcomes : adapter_attempt(r, outcome)
    \/ \E r \in Reqs : adapter_return(r)

SpecAdapter == Init /\ [][NextAdapter]_vars

\* calls of the adapters with a content long enough, for each max_retries a
\* config can hold
LongContents == {c \in Contents : c.blanks_before = 0 /\ c.blanks_after = 0 /\ c.text = MaxContent}

RetryChoices == 0..MaxRetries

NextRetries ==
    \/ \E S \in SUBSET ConfiguredKinds : \E configs \in [S -> InitOutcomes] :
          startup(configs)
    \/ \E p \in AIProviderType : \E init \in InitOutcomes :
          ensure_provider_initialized(p, BaseConfig, init)
    \/ \E r \in Reqs : \E p \in AIProviderType : \E content \in LongContents :
          \E retries \in RetryChoices : adapter_call(r, p, content, retries)
    \/ \E r \in Reqs : adapter_entry(r)
    \/ \E r \in Reqs : \E outcome \in AttemptOutcomes : adapter_attempt(r, outcome)
    \/ \E r \in Reqs : adapter_falls_through(r)
    \/ \E r \in Reqs : adapter_return(r)

SpecRetries == Init /\ [][NextRetries]_vars

\* ------------------------- the Router's calls with what the adapter answers
\* contents around the length test: empty or blank, nine and ten characters
\* and the longest, each with and without blanks around it
BoundaryContents == {c \in Contents : c.text \in {0, 9, 10, MaxContent}}

\* str(e) of the AttributeError `response.success` raises inside the try block
\* when the adapter has returned None
NoneTypeText == "'NoneType' object has no attribute 'success'"

\* the failure the adapter of the candidate returns before its retry loop for
\* the content of the call, None when it enters the loop
refusal(r) ==
    entry_failure(services, req[r].providers_to_try[req[r].i], req[r].content)

CallAlone(r, content, kind, preferred_provider, disable_fallback) ==
    /\ \A q \in Reqs : ~InFlight(q)
    /\ Call(r, content, kind, preferred_provider, NoOverrides, disable_fallback)

\* the adapter refuses the content
AdapterRefuses(r) ==
    /\ req[r].pc = "called"
    /\ refusal(r) # None
    /\ Respond(r, "fail", refusal(r))

\* the adapter gets a usable response from the backend
AdapterSucceeds(r) ==
    /\ req[r].pc = "called"
    /\ refusal(r) = None
    /\ Respond(r, "ok", None)

\* the adapter returns a failure with error text msg ("fail") or lets an
\* exception with that text out ("raise")
AdapterFails(r, outcome, msg) ==
    /\ req[r].pc = "called"
    /\ refusal(r) = None
    /\ Respond(r, outcome, msg)

\* the adapter returns None: the Router's read of response.success raises
\* inside the try and is handled by its except branch
AdapterReturnsNone(r) ==
    /\ req[r].pc = "called"
    /\ refusal(r) = None
    /\ Respond(r, "raise", NoneTypeText)

LoopStep(r) ==
    \/ Skip(r)
    \/ Dispatch(r)
    \/ AdapterRefuses(r)
    \/ AdapterSucceeds(r)
    \/ \E outcome \in {"fail", "raise"} : \E msg \in AdapterErrors :
          AdapterFails(r, outcome, msg)
    \/ AdapterReturnsNone(r)

NextAnswers ==
    \/ \E S \in SUBSET ConfiguredKinds : \E configs \in [S -> InitOutcomes] :
          startup(configs)
    \/ \E r \in Reqs : \E content \in BoundaryContents : \E kind \in Kinds :
          \E pp \in ConfiguredKinds \cup {None} : \E df \in BOOLEAN :
             CallAlone(r, content, kind, pp, df)
    \/ \E r \in Reqs : Return(r)
    \/ \E r \in Reqs : Skip(r)
    \/ \E r \in Reqs : Dispatch(r)
    \/ \E r \in Reqs : AdapterRefuses(r)
    \/ \E r \in Reqs : AdapterSucceeds(r)
    \/ \E r \in Reqs : \E outcome \in {"fail", "raise"} : \E msg \in AdapterErrors :
          AdapterFails(r, outcome, msg)
    \/ \E r \in Reqs : AdapterReturnsNone(r)

SpecAnswers == Init /\ [][NextAnswers]_vars

\* the event loop runs a call that is under way: the loop goes on and the
\* adapter call it awaits ends
SpecAnswersFair ==
    Init /\ [][NextAnswers]_vars /\ \A r \in Reqs : WF_vars(LoopStep(r))

\* ------------------------------------- BaseAIService._extract_json_from_text
\* the characters the scan tells apart, "a" standing for every other one
Chars == {"{", "}", "\"", "\\", "a"}

\* a text is the sequence of its characters
Texts == UNION {[1..n -> Chars] : n \in 0..MaxText}

\* the return value None; an extracted substring is never empty
NoJson == <<>>

\* text.find('{'), 0 standing for -1
find_brace(text) ==
    IF \E k \in 1..Len(text) : text[k] = "{"
    THEN CHOOSE k \in 1..Len(text) :
            /\ text[k] = "{"
            /\ \A j \in 1..(k - 1) : text[j] # "{"
    ELSE 0

\* the body of the loop as it would be without the two tests of the backslash
scan_char_no_escape(s, char) ==
    IF char = "\""
    THEN [s EXCEPT !.in_string = ~s.in_string]
    ELSE IF ~s.in_string /\ char = "{"
    THEN [s EXCEPT !.brace_count = @ + 1]
    ELSE IF ~s.in_string /\ char = "}"
    THEN [s EXCEPT !.brace_count = @ - 1, !.closed = (s.brace_count - 1 = 0)]
    ELSE s

\* the body of the loop for one character: what it leaves of brace_count,
\* in_string and escape_next, closed telling that it returns the substring
scan_char(s, char) ==
    IF s.escape_next
    THEN [s EXCEPT !.escape_next = FALSE]
    ELSE IF char = "\\"
    THEN [s EXCEPT !.escape_next = TRUE]
    ELSE IF char = "\"" /\ ~s.escape_next
    THEN [s EXCEPT !.in_string = ~s.in_string]
    ELSE IF ~s.in_string /\ char = "{"
    THEN [s EXCEPT !.brace_count = @ + 1]
    ELSE IF ~s.in_string /\ char = "}"
    THEN [s EXCEPT !.brace_count = @ - 1, !.closed = (s.brace_count - 1 = 0)]
    ELSE s

\* the request that makes the next call: the first one that is free
first_free(r) ==
    /\ req[r].pc = "idle"
    /\ \A q \in Reqs : q < r => req[q].pc # "idle"

\* the call: the first opening brace is looked for
extract_json_from_text(r, text) ==
    /\ req[r].scan.pc = "none"
    /\ req' = [req EXCEPT ![r].scan =
          IF find_brace(text) = 0
          THEN [NoScan EXCEPT !.pc = "returned", !.text = text, !.result = NoJson]
          ELSE [NoScan EXCEPT !.pc = "scan", !.text = text,
                              !.start_idx = find_brace(text), !.i = find_brace(text)]]
    /\ UNCHANGED <<router_but_req, error_handler, now, returned>>

\* one turn of `for i, char in enumerate(text[start_idx:], start_idx)`, or the
\* `return None` after the loop
scan_step(r) ==
    LET s == req[r].scan
        t == scan_char(s, s.text[s.i])
    IN /\ s.pc = "scan"
       /\ req' = [req EXCEPT ![r].scan =
             IF s.i > Len(s.text)
             THEN [s EXCEPT !.pc = "returned", !.result = NoJson]
             ELSE IF t.closed
             THEN [t EXCEPT !.pc = "returned",
                            !.result = SubSeq(s.text, s.start_idx, s.i)]
             ELSE [t EXCEPT !.i = @ + 1]]
       /\ UNCHANGED <<router_but_req, error_handler, now, returned>>

\* the caller has the result
scan_return(r) ==
    /\ req[r].scan.pc = "returned"
    /\ req' = [req EXCEPT ![r].scan = NoScan]
    /\ UNCHANGED <<router_but_req, error_handler, now, returned>>

NextExtract ==
    \/ \E r \in Reqs :
          first_free(r) /\ req[r].scan.pc = "none"
             /\ \E text \in Texts : extract_json_from_text(r, text)
    \/ \E r \in Reqs : scan_step(r)
    \/ \E r \in Reqs : scan_return(r)

SpecExtract == Init /\ [][NextExtract]_vars

\* ================================================================ claims
Started(r) == req[r].pc \in {"loop", "called", "done"}
LogOf(r) == req[r].log
Invoked(r) == {LogOf(r)[k].provider : k \in 1..Len(LogOf(r))}
Failed(entry) == entry.outcome \in {"fail", "raise"}
NoDuplicates(s) == \A j, k \in 1..Len(s) : s[j] = s[k] => j = k
PositionIn(s, x) == CHOOSE k \in 1..Len(s) : s[k] = x
PreferredUnavailableText == "Preferred provider not available and fallback is disabled"

\* C1: as soon as one candidate's adapter call returns success the call is
\* over: the success is the last invocation of the request, the request has
\* returned it, and the response is attributed to that backend.
C1_FirstSuccessReturns ==
    \A r \in Reqs : \A k \in 1..Len(LogOf(r)) :
        LogOf(r)[k].outcome = "ok" =>
            /\ k = Len(LogOf(r))
            /\ req[r].pc = "done"
            /\ req[r].response.success
            /\ req[r].response.provider = LogOf(r)[k].provider

\* a success returned while a later candidate of the chain was left untried
C1_Witness ==
    \E r \in Reqs :
        /\ req[r].pc = "done"
        /\ req[r].response.success
        /\ req[r].i < Len(req[r].providers_to_try)
        /\ ~req[r].disable_fallback

\* C2: every adapter invocation that ends in failure is reported to the
\* Health Tracker exactly once: in the step in which the failed call comes
\* back, that backend's consecutive_failures grows by one and its health drops.
C2_FailureReportedOnce ==
    [][\A r \in Reqs :
          (req[r].pc = "called" /\ req'[r].pc # "called"
              /\ Failed(req'[r].log[Len(req'[r].log)]))
          => LET p == req[r].providers_to_try[req[r].i]
             IN /\ error_handler'.consecutive_failures[p]
                      = error_handler.consecutive_failures[p] + 1
                /\ error_handler'.error_counts[p] = error_handler.error_counts[p] + 1
                /\ get_provider_health(error_handler', p)
                      < get_provider_health(error_handler, p)]_vars

\* C3: every successful adapter invocation is reported to the Health Tracker:
\* in the step in which the successful call comes back, that backend's
\* consecutive_failures becomes 0 and its health min(1.0, health + 0.20).
C3_SuccessReported ==
    [][\A r \in Reqs :
          (req[r].pc = "called" /\ req'[r].pc = "done" /\ req'[r].response.success)
          => LET p == req'[r].response.provider
             IN /\ error_handler'.consecutive_failures[p] = 0
                /\ get_provider_health(error_handler', p)
                      = MinOf(One, get_provider_health(error_handler, p)
                                     + (20 * One) \div 100)]_vars

\* C4: with fallback enabled, a failure classified Critical ends the chain: it
\* is the last invocation of the request, which returns a failure naming that
\* backend.
C4_CriticalStopsChain ==
    \A r \in Reqs : \A k \in 1..Len(LogOf(r)) :
        (~req[r].disable_fallback /\ Failed(LogOf(r)[k])
            /\ LogOf(r)[k].severity = "critical")
        => /\ k = Len(LogOf(r))
           /\ req[r].pc = "done"
           /\ ~req[r].response.success
           /\ req[r].response.provider = LogOf(r)[k].provider

\* C5: with disable_fallback no adapter but the preferred backend's is ever
\* invoked, and a failed call of the preferred backend is returned at once as
\* a failure whose provider is the preferred backend.
C5_DisableFallbackPinsPreferred ==
    \A r \in Reqs : req[r].disable_fallback =>
        /\ \A k \in 1..Len(LogOf(r)) : LogOf(r)[k].provider = req[r].preferred_provider
        /\ Len(LogOf(r)) <= 1
        /\ (Len(LogOf(r)) = 1 /\ Failed(LogOf(r)[1])) =>
              /\ req[r].pc = "done"
              /\ ~req[r].response.success
              /\ req[r].response.provider = req[r].preferred_provider
              /\ req[r].response.error = req[r].last_error

\* the preferred backend failed under disable_fallback while another backend
\* was the registered, usable primary
C5_Witness ==
    \E r \in Reqs :
        /\ req[r].pc = "done"
        /\ req[r].disable_fallback
        /\ Len(LogOf(r)) = 1
        /\ Failed(LogOf(r)[1])
        /\ primary_provider # None
        /\ primary_provider # req[r].preferred_provider
        /\ candidate_eligible(services, error_handler, primary_provider, now)

\* C6: with disable_fallback and the preferred backend absent from the
\* registry or not usable, the call returns the preferred-provider-unavailable
\* failure, without an adapter invocation and without a change of the tracker.
C6_PreferredUnavailableReported ==
    [][\A r \in Reqs :
          (req[r].pc # "done" /\ req'[r].pc = "done" /\ req'[r].disable_fallback
              /\ (req'[r].providers_to_try = <<>>
                  \/ (req[r].pc = "loop"
                      /\ ~should_use_provider(error_handler,
                             req[r].providers_to_try[req[r].i], now))))
          => /\ req'[r].log = <<>>
             /\ ~req'[r].response.success
             /\ req'[r].response.error = PreferredUnavailableText
             /\ error_handler' = error_handler]_vars

\* the chain the claim describes, stated by its properties: members, first
\* place of the preferred backend, primary before the fallback order, the
\* fallback order kept
IsClaimedChain(chain, registry, primary, fallback, preferred_provider) ==
    LET members == (IF preferred_provider # None /\ preferred_provider \in registry
                    THEN {preferred_provider} ELSE {})
                   \cup (IF primary # None THEN {primary} ELSE {})
                   \cup {fallback[k] : k \in 1..Len(fallback)}
    IN /\ {chain[k] : k \in 1..Len(chain)} = members
       /\ NoDuplicates(chain)
       /\ (preferred_provider # None /\ preferred_provider \in registry)
             => chain[1] = preferred_provider
       /\ \A k \in 1..Len(fallback) :
             (primary # None /\ fallback[k] # primary
                 /\ ~(fallback[k] = preferred_provider /\ preferred_provider \in registry))
             => PositionIn(chain, primary) < PositionIn(chain, fallback[k])
       /\ \A j, k \in 1..Len(fallback) :
             (j < k /\ fallback[j] # chain[1] /\ fallback[k] # chain[1]
                 /\ fallback[j] # primary /\ fallback[k] # primary)
             => PositionIn(chain, fallback[j]) < PositionIn(chain, fallback[k])

\* C7 as claimed: the chain of every call is [preferred if registered],
\* primary, remaining fallback order, without a repeated backend, so that each
\* adapter is invoked at most once and at most |registry| invocations are made.
C7_ChainOfEveryCall ==
    \A r \in Reqs : (Started(r) /\ req[r].providers_to_try # <<>>) =>
        /\ IsClaimedChain(req[r].providers_to_try, req[r].registry_at_start,
                          primary_provider, fallback_order, req[r].preferred_provider)
        /\ \A j, k \in 1..Len(LogOf(r)) :
              LogOf(r)[j].provider = LogOf(r)[k].provider => j = k
        /\ Len(LogOf(r)) <= Cardinality(req[r].registry_at_start)

\* C7 as amended: that chain is the chain of every call with fallback enabled;
\* with fallback disabled the chain is [preferred if registered] alone; in both
\* cases no backend is repeated, each adapter is invoked at most once and at
\* most |registry| invocations are made.
C7_ChainShape ==
    \A r \in Reqs : Started(r) =>
        /\ ~req[r].disable_fallback =>
              IsClaimedChain(req[r].providers_to_try, req[r].registry_at_start,
                             primary_provider, fallback_order, req[r].preferred_provider)
        /\ req[r].disable_fallback =>
              req[r].providers_to_try =
                 IF req[r].preferred_provider \in req[r].registry_at_start
                 THEN <<req[r].preferred_provider>> ELSE <<>>
        /\ NoDuplicates(req[r].providers_to_try)
        /\ \A j, k \in 1..Len(LogOf(r)) :
              LogOf(r)[j].provider = LogOf(r)[k].provider => j = k
        /\ Len(LogOf(r)) <= Cardinality(req[r].registry_at_start)

\* a call whose preferred backend also stands in the fallback order and whose
\* chain was walked to its end
C7_Witness ==
    \E r \in Reqs :
        /\ req[r].pc = "done"
        /\ ~req[r].disable_fallback
        /\ req[r].preferred_provider \in req[r].registry_at_start
        /\ InSeq(req[r].preferred_provider, fallback_order)
        /\ Len(req[r].providers_to_try) = 2
        /\ Len(LogOf(r)) = 2

\* C8: no adapter is invoked for a backend that is not usable at the moment
\* the candidate is reached.
C8_NeverInvokesUnusable ==
    \A r \in Reqs : \A k \in 1..Len(LogOf(r)) : LogOf(r)[k].usable

\* the preferred backend, registered but not usable, was passed over and the
\* next candidate invoked
C8_Witness ==
    \E r \in Reqs :
        /\ Len(LogOf(r)) = 1
        /\ Len(req[r].providers_to_try) = 2
        /\ req[r].providers_to_try[1] = req[r].preferred_provider
        /\ LogOf(r)[1].provider = req[r].providers_to_try[2]
        /\ req[r].providers_to_try[1] \in services
        /\ ~should_use_provider(error_handler, req[r].providers_to_try[1], now)

\* C9: when a call that ran alone has returned, by whatever path, the four
\* tunables of every adapter it invoked are what they were before the call.
C9_ConfigRestored ==
    \A r \in Reqs : req[r].pc = "done" =>
        \A p \in Invoked(r) : config[p] = req[r].config_at_start[p]

\* a call with all four overrides whose adapter raised
C9_Witness ==
    \E r \in Reqs :
        /\ req[r].pc = "done"
        /\ req[r].preferred_model # 0
        /\ req[r].temperature # 0
        /\ Len(LogOf(r)) >= 1
        /\ LogOf(r)[Len(LogOf(r))].outcome = "raise"
        /\ LogOf(r)[Len(LogOf(r))].used.top_p = req[r].top_p

\* the tunables a call of request r is meant to run with
OwnOverrides(r, entry) ==
    /\ req[r].preferred_model # 0 => entry.used.model_name = req[r].preferred_model
    /\ req[r].kind = "generate_question_answer_pair" =>
          /\ req[r].temperature # 0 => entry.used.temperature = req[r].temperature
          /\ req[r].max_tokens # 0 => entry.used.max_tokens = req[r].max_tokens
          /\ req[r].top_p # 0 => entry.used.top_p = req[r].top_p

\* C10: overrides are never persisted under concurrency: once every call has
\* returned, each registered adapter has its registered configuration, and
\* every finished adapter call ran with the overrides of its own request.
C10_OverridesNotPersisted ==
    /\ (\A r \in Reqs : ~InFlight(r)) =>
          \A p \in services : config[p] = BaseConfig
    /\ \A r \in Reqs : \A k \in 1..Len(LogOf(r)) :
          LogOf(r)[k].outcome # "pending" => OwnOverrides(r, LogOf(r)[k])

\* C11: a call that ends without success after the loop returns a failure that
\* names the last backend whose adapter was invoked, carries that call's error
\* text and that backend's display name, and flags all_providers_failed.
C11_LastInvokedReported ==
    \A r \in Reqs :
        (req[r].pc = "done" /\ ~req[r].response.success
            /\ ~req[r].disable_fallback /\ LogOf(r) # <<>>)
        => LET last == LogOf(r)[Len(LogOf(r))]
           IN /\ req[r].response.provider = last.provider
              /\ req[r].response.error = req[r].last_call_error
              /\ req[r].response.provider_display_name
                    = get_provider_display_name(last.provider)
              /\ req[r].response.metadata = "all_providers_failed"

\* the first candidate failed and the second, not usable, was passed over: the
\* last backend invoked is not the last of the chain
C11_Witness ==
    \E r \in Reqs :
        /\ req[r].pc = "done"
        /\ req[r].response.metadata = "all_providers_failed"
        /\ Len(req[r].providers_to_try) = 2
        /\ Len(LogOf(r)) = 1
        /\ LogOf(r)[1].provider = req[r].providers_to_try[1]
        /\ Failed(LogOf(r)[1])
        /\ req[r].i > Len(req[r].providers_to_try)

\* ------------------------------------------------ Health Tracker claims
Health(p) == get_provider_health(error_handler, p)
HealthAfter(p) == get_provider_health(error_handler', p)
Clamp(h) == IF h < 0 THEN 0 ELSE IF h > One THEN One ELSE h
Pct(n) == (n * One) \div 100
GenericText == "internal server error"
SecondsSinceError(p) == (now - error_handler.last_error_time[p]) * SecondsPerTick

\* the delta the deltas table gives for an error text, the counter already
\* incremented
ClaimedDelta(msg, failures) ==
    IF msg = "429 rate limit exceeded" THEN 0 - Pct(10)
    ELSE IF msg = "connection timeout" THEN 0 - Pct(20)
    ELSE IF msg = "401 unauthorized" THEN 0 - Pct(50)
    ELSE IF msg = "quota exceeded" THEN 0 - Pct(80)
    ELSE IF failures >= 5 THEN 0 - Pct(30)
    ELSE 0 - Pct(15)

\* C12: for every error category a recorded failure sets the health to
\* clamp(health + delta, 0, 1), with delta -0.10 rate-limit, -0.20
\* timeout/connection, -0.50 authentication, -0.80 quota/billing, -0.30
\* consecutive-exhaustion and -0.15 generic.
C12_FailureDeltas ==
    [][\A p \in TrackedKinds : \A msg \in ErrorTexts :
          record_failure(p, msg)
          => HealthAfter(p) = Clamp(Health(p)
                 + ClaimedDelta(msg, error_handler.consecutive_failures[p] + 1))]_vars

\* the second failure of a provider, a quota failure, left its health at 0
C12_Witness ==
    /\ returned.op = "handle_error"
    /\ returned.msg = "quota exceeded"
    /\ error_handler.error_counts[returned.provider] = 2
    /\ error_handler.consecutive_failures[returned.provider] = 2
    /\ Health(returned.provider) = 0

\* C13: whatever calls were made, every health score lies in [0, 1] and every
\* consecutive_failures is a non-negative integer.
C13_HealthInRange ==
    \A p \in AIProviderType :
        /\ Health(p) >= 0
        /\ Health(p) <= One
        /\ error_handler.consecutive_failures[p] \in Nat

\* a decay that would have taken the score of a provider without an error
\* time below 0
C13_Witness ==
    \E p \in TrackedKinds :
        /\ error_handler.provider_health[p] = 0
        /\ error_handler.last_error_time[p] = Absent
        /\ error_handler.error_counts[p] = 0

\* C14: a recorded success sets consecutive_failures to 0 and raises the
\* health by 0.20, capped at 1.0; it leaves the last error time and the error
\* count alone, so that the provider stays inside the recovery window of its
\* last failure while its health is below 1.0.
C14_SuccessEffect ==
    [][\A p \in TrackedKinds :
          record_success(p)
          => /\ error_handler'.consecutive_failures[p] = 0
             /\ HealthAfter(p) = Clamp(Health(p) + Pct(20))
             /\ error_handler'.last_error_time[p] = error_handler.last_error_time[p]
             /\ error_handler'.error_counts[p] = error_handler.error_counts[p]
             /\ (/\ error_handler.last_error_time[p] # Absent
                 /\ SecondsSinceError(p) * One < (One - HealthAfter(p)) * 300)
                => ~should_use_provider(error_handler', p, now)]_vars

\* after a success the provider is above the threshold with no consecutive
\* failure and still not usable: the window of its last failure is running
C14_Witness ==
    \E p \in TrackedKinds :
        /\ error_handler.consecutive_failures[p] = 0
        /\ error_handler.error_counts[p] > 0
        /\ error_handler.last_error_time[p] # Absent
        /\ Health(p) >= Pct(30)
        /\ Health(p) < One
        /\ ~should_use_provider(error_handler, p, now)

\* C15: a provider is usable exactly when its health is at least 0.30, its
\* consecutive_failures is below 5 and either it has no last error time or at
\* least (1 - health) * 300 seconds have passed since then.
C15_UsableRule ==
    \A p \in AIProviderType :
        should_use_provider(error_handler, p, now)
        <=> /\ ~(Health(p) < Pct(30))
            /\ ~(error_handler.consecutive_failures[p] >= 5)
            /\ ~(/\ error_handler.last_error_time[p] # Absent
                 /\ SecondsSinceError(p) * One < (One - Health(p)) * 300)

\* five consecutive failures, health still at 0.50, more than an hour since
\* the last error: not usable
C15_Witness ==
    \E p \in TrackedKinds :
        /\ error_handler.consecutive_failures[p] >= 5
        /\ Health(p) >= Pct(50)
        /\ error_handler.last_error_time[p] # Absent
        /\ SecondsSinceError(p) > 3600
        /\ ~should_use_provider(error_handler, p, now)

\* C16: a provider with health 0.0 is not usable 100 seconds after its last
\* failure and is usable once 300 seconds or more have passed since it.
C16_ZeroHealthRecovers ==
    \A p \in AIProviderType :
        (/\ Health(p) = 0
         /\ error_handler.consecutive_failures[p] < 5
         /\ error_handler.last_error_time[p] # Absent)
        => /\ SecondsSinceError(p) = 100 => ~should_use_provider(error_handler, p, now)
           /\ SecondsSinceError(p) >= 300 => should_use_provider(error_handler, p, now)

\* C17: a provider without a last error time is usable, whatever successes,
\* decays and resets were recorded.
C17_NoErrorIsUsable ==
    \A p \in AIProviderType :
        error_handler.last_error_time[p] = Absent
        => should_use_provider(error_handler, p, now)

\* a run of generic failures from a fresh provider: as many failures counted
\* as consecutive, each having taken 0.15
GenericRun(p) ==
    /\ error_handler.consecutive_failures[p] = error_handler.error_counts[p]
    /\ error_handler.consecutive_failures[p] <= 4
    /\ Health(p) = Clamp(One - error_handler.consecutive_failures[p] * Pct(15))

\* C18 as claimed: each of five consecutive generic failures from a fresh
\* provider takes 0.15 (clamped), and after the fifth the provider is not
\* usable.
C18_FiveGenericFailures ==
    [][\A p \in TrackedKinds :
          (GenericRun(p) /\ record_failure(p, GenericText))
          => /\ HealthAfter(p) = Clamp(Health(p) - Pct(15))
             /\ error_handler'.consecutive_failures[p] >= 5
                   => ~should_use_provider(error_handler', p, now)]_vars

\* C18 as amended: the first four take 0.15 each (1.0 down to 0.40); the
\* fifth, the counter being at 5, is classified consecutive-exhaustion and
\* takes 0.30 (0.10 left); after it the provider is not usable.
C18_FifthIsExhaustion ==
    [][\A p \in TrackedKinds :
          (GenericRun(p) /\ record_failure(p, GenericText))
          => /\ error_handler.consecutive_failures[p] < 4
                   => HealthAfter(p) = Clamp(Health(p) - Pct(15))
             /\ error_handler.consecutive_failures[p] = 4
                   => /\ Health(p) = Pct(40)
                      /\ HealthAfter(p) = Pct(10)
                      /\ returned'.info.severity = "critical"
                      /\ ~should_use_provider(error_handler', p, now)]_vars

\* the fifth generic failure in a row has been recorded
C18_Witness ==
    /\ returned.op = "handle_error"
    /\ returned.msg = GenericText
    /\ LET p == returned.provider
       IN /\ error_handler.consecutive_failures[p] = 5
          /\ error_handler.error_counts[p] = 5
          /\ Health(p) = Pct(10)

\* C19: the ErrorInfo handed back is determined by the category:
\* authentication and quota/billing Critical with delay 0, rate-limit Medium
\* with delay 30, timeout/connection High with delay 5, generic Medium with
\* delay 2, and should_fallback true for every category.
C19_ErrorInfoByCategory ==
    returned.op = "handle_error"
    => LET info == returned.info
           msg == returned.msg
           exhausted == error_handler.consecutive_failures[returned.provider] >= 5
       IN /\ info.should_fallback
          /\ msg \in {"401 unauthorized", "quota exceeded"}
                => (info.severity = "critical" /\ info.retry_delay = 0)
          /\ msg = "429 rate limit exceeded"
                => (info.severity = "medium" /\ info.retry_delay = 30)
          /\ msg = "connection timeout"
                => (info.severity = "high" /\ info.retry_delay = 5)
          /\ (msg = GenericText /\ ~exhausted)
                => (info.severity = "medium" /\ info.retry_delay = 2)

\* a timeout failure came back High with delay 5
C19_Witness ==
    /\ returned.op = "handle_error"
    /\ returned.msg = "connection timeout"
    /\ returned.info.severity = "high"
    /\ returned.info.retry_delay = 5

\* C20: no step other than a recorded success or a reset raises a health
\* score: recorded failures, decay and the passage of time leave it equal or
\* lower.
C20_HealthRisesOnlyOnSuccess ==
    [][\A p \in AIProviderType :
          HealthAfter(p) > Health(p)
          => \/ \E q \in TrackedKinds : record_success(q)
             \/ \E q \in TrackedKinds \cup {None} : reset(q)
             \/ \E q \in TrackedKinds \cup {None} : manager_reset(q)]_vars

\* a decay that took part of the score of a provider whose last error is more
\* than an hour old
C20_Witness ==
    \E p \in TrackedKinds :
        /\ error_handler.last_error_time[p] # Absent
        /\ SecondsSinceError(p) > 3600
        /\ Health(p) > 0
        /\ Health(p) % Pct(5) # 0

\* C21: reset_provider_health of the manager, the reset a caller of the
\* Router reaches, leaves the provider with health 1.0, no consecutive
\* failures, no last error time and usable, whatever was recorded before;
\* called without a provider it does so for every provider.
C21_ManagerResetClearsAll ==
    [][\A q \in TrackedKinds \cup {None} :
          manager_reset(q)
          => \A p \in (IF q = None THEN TrackedKinds ELSE {q}) :
                /\ get_provider_health(error_handler', p) = One
                /\ error_handler'.consecutive_failures[p] = 0
                /\ error_handler'.last_error_time[p] = Absent
                /\ should_use_provider(error_handler', p, now)]_vars

\* C22: a provider enters the registry only in a step of initialize_providers
\* or ensure_provider_initialized in which initialize() of its adapter
\* returned success; an initialize() that fails or raises leaves the provider
\* out of the registry and its status at error.
C22_RegisteredOnlyOnSuccess ==
    [][\A p \in AIProviderType :
          /\ (p \in services' /\ p \notin services)
                => \/ ensure_provider_initialized(p, BaseConfig, "ok")
                   \/ \E S \in SUBSET ConfiguredKinds : \E configs \in [S -> InitOutcomes] :
                         /\ p \in S
                         /\ configs[p] = "ok"
                         /\ startup(configs)
          /\ \A init \in {"fail", "raise"} :
                (p \notin services /\ ensure_provider_initialized(p, BaseConfig, init))
                => /\ p \notin services'
                   /\ provider_status'[p] = "error"
          /\ \A S \in SUBSET ConfiguredKinds : \A configs \in [S -> InitOutcomes] :
                (p \in S /\ configs[p] # "ok" /\ startup(configs))
                => /\ p \notin services'
                   /\ provider_status'[p] = "error"]_vars

\* one provider was turned away by a failed initialize() while another is
\* registered
C22_Witness ==
    \E p, q \in ConfiguredKinds :
        /\ p \notin services
        /\ provider_status[p] = "error"
        /\ q \in services
        /\ provider_status[q] = "available"

\* the candidate set of the claim in the state after the step: the registered
\* providers with status available that are usable, or all of them when none
\* is usable
ClaimedCandidates ==
    LET available == {p \in services' : provider_status'[p] = "available"}
        usable == {p \in available : should_use_provider(error_handler', p, now')}
    IN IF usable # {} THEN usable ELSE available

\* a step that changes the registry, a status or the priority: in SpecPriority
\* these are the calls of initialize_providers, which end with the
\* computation of the priority
PriorityComputed ==
    \/ services' # services
    \/ provider_status' # provider_status
    \/ primary_provider' # primary_provider
    \/ fallback_order' # fallback_order

C24_RegisteredUsableInChain ==
    [][\A r \in Reqs :
          (/\ req[r].pc = "idle"
           /\ req'[r].pc \in {"loop", "done"}
           /\ ~req'[r].disable_fallback)
          => \A p \in services :
                should_use_provider(error_handler, p, now)
                => InSeq(p, req'[r].providers_to_try)]_vars

\* the invocations of request r so far are the candidates at strictly
\* increasing positions of its chain, every one but the last has come back,
\* and a call that is out is the call to the candidate the loop stands at
InChainOrder(r) ==
    LET log == req[r].log
        chain == req[r].providers_to_try
    IN /\ \A k \in 1..Len(log) : InSeq(log[k].provider, chain)
       /\ \A k \in 1..(Len(log) - 1) :
             /\ log[k].outcome # "pending"
             /\ PositionIn(chain, log[k].provider) < PositionIn(chain, log[k + 1].provider)
       /\ req[r].pc = "called"
             => /\ log[Len(log)].outcome = "pending"
                /\ log[Len(log)].provider = chain[req[r].i]
       /\ req[r].pc = "loop"
             => \A k \in 1..Len(log) :
                   /\ log[k].outcome # "pending"
                   /\ PositionIn(chain, log[k].provider) < req[r].i

Orders == {o \in [1..NumReqs -> Reqs] : \A i, j \in 1..NumReqs : i # j => o[i] # o[j]}

\* the tracker after the calls of the threads run whole, one after another in
\* order o from position k on
RECURSIVE OneAfterAnother(_, _, _)
OneAfterAnother(eh, o, k) ==
    IF k > NumReqs THEN eh
    ELSE OneAfterAnother(handle_error(eh, req[o[k]].frame.error_msg,
                                      req[o[k]].frame.provider, now), o, k + 1)

\* C26: when handle_error calls made by different threads for the same
\* provider have all returned, the provider's error count, consecutive
\* failures and health are what running the calls one after another in some
\* order gives: no update is lost.
C26_NoLostUpdate ==
    (\A r \in Reqs : at(r, "returned"))
    => \E o \in Orders :
          LET serial == OneAfterAnother(reset_provider_health(error_handler, None), o, 1)
          IN \A p \in TrackedKinds :
                /\ error_handler.error_counts[p] = serial.error_counts[p]
                /\ error_handler.consecutive_failures[p] = serial.consecutive_failures[p]
                /\ get_provider_health(error_handler, p) = get_provider_health(serial, p)

\* C27: ensure_provider_initialized(provider, config) of a registered
\* provider puts the config handed in in place of the live one, leaves the
\* registry as it is whatever initialize() would do, sets the status to
\* available and returns True; of an unregistered provider it registers it
\* with that config if initialize() succeeds and otherwise leaves registry and
\* configs alone and returns False; the same call made again right after
\* changes nothing.
C27_EnsureIdempotent ==
    [][\A p \in ConfiguredKinds : \A cfg \in ConfigChoices : \A init \in InitOutcomes :
          ensure_provider_initialized(p, cfg, init)
          => LET result == ensure_effect(services, provider_status, config,
                                         p, cfg, init).result
                 again == ensure_effect(services', provider_status', config',
                                        p, cfg, init)
             IN /\ p \in services
                      => /\ services' = services
                         /\ config' = [config EXCEPT ![p] = cfg]
                         /\ provider_status' = [provider_status EXCEPT ![p] = "available"]
                         /\ result = TRUE
                /\ (p \notin services /\ init = "ok")
                      => /\ services' = services \cup {p}
                         /\ config' = [config EXCEPT ![p] = cfg]
                         /\ provider_status' = [provider_status EXCEPT ![p] = "available"]
                         /\ result = TRUE
                /\ (p \notin services /\ init # "ok")
                      => /\ services' = services
                         /\ config' = config
                         /\ provider_status' = [provider_status EXCEPT ![p] = "error"]
                         /\ result = FALSE
                /\ again.services = services'
                /\ again.provider_status = provider_status'
                /\ again.config = config'
                /\ again.result = result]_vars

\* the provider that start-up registered and made primary now runs on the
\* config a later ensure_provider_initialized handed in
C27_Witness ==
    \E p \in ConfiguredKinds :
        /\ primary_provider = p
        /\ p \in services
        /\ provider_status[p] = "available"
        /\ config[p] = HotConfig

\* C28: a call that comes back to an adapter whose config was replaced while
\* the call was out leaves the config that was put in place as it is, in
\* every field.
C28_HotSwapSurvivesCall ==
    [][\A r \in Reqs :
          (req[r].pc = "called" /\ req'[r].pc # "called")
          => LET p == req[r].providers_to_try[req[r].i]
             IN config[p] # apply_overrides(req[r], req[r].original)
                   => config'[p] = config[p]]_vars

\* a batch that has been started and not yet handed back
IsBatch(r) ==
    /\ req[r].kind = "generate_questions_batch"
    /\ req[r].pc \in {"batch", "done"}

\* what C29 says of a batch whatever provider it is pinned to: only that
\* provider's adapter is invoked, once per item in the order of the list,
\* and the list returned has one result per item in the same order
BatchSequentialOnPinned(r) ==
    LET b == req[r].batch
        log == req[r].log
    IN /\ \A k \in 1..Len(log) :
             /\ log[k].provider = b.provider_to_use
             /\ log[k].item = b.content_list[k]
       /\ Len(b.results) = Len(log) \/ b.provider_to_use = None
       /\ req[r].pc = "batch" => Len(log) = req[r].i - 1
       /\ req[r].pc = "done"
             => /\ Len(b.results) = Len(b.content_list)
                /\ \A k \in 1..Len(b.content_list) :
                      b.results[k].item = b.content_list[k]
                /\ b.provider_to_use # None => Len(log) = Len(b.content_list)

C30_ShortContentStep(r) ==
    LET a == req[r].adapter
        b == req'[r].adapter
    IN (a.pc = "entered" /\ b # a /\ a.content.text < 10)
         => /\ b.pc = "returned"
            /\ b.response.value = "AIResponse"
            /\ b.response.success = FALSE
            /\ b.response.error = "Content too short for question generation"
            /\ b.response.provider = a.provider
            /\ b.network_calls = 0
            /\ error_handler' = error_handler

C30_ContentTooShort ==
    [][\A r \in Reqs : C30_ShortContentStep(r)]_vars

\* a content of nine characters between two blanks, eleven in all, has been
\* refused by the adapter of each kind that could be registered
C30_Witness ==
    \E r \in Reqs :
        /\ req[r].adapter.pc = "returned"
        /\ req[r].adapter.provider \in AIProviderType
        /\ req[r].adapter.content = [blanks_before |-> 1, text |-> 9, blanks_after |-> 1]
        /\ req[r].adapter.response.success = FALSE
        /\ req[r].adapter.response.error = "Content too short for question generation"
        /\ req[r].adapter.network_calls = 0


\* C32: in an adapter's generate_question_answer_pair a call to the backend
\* that raises an authentication error ends the method with a failure at
\* once: no sleep and no further attempt follow it.
C32_NonTransientStep(r) ==
    LET a == req[r].adapter
        b == req'[r].adapter
    IN (a.pc = "attempt" /\ b.network_calls = a.network_calls + 1
          /\ b.last_outcome = "authentication")
         => /\ b.pc = "returned"
            /\ b.sleeps = a.sleeps

C32_NonTransientNotRetried ==
    [][\A r \in Reqs : C32_NonTransientStep(r)]_vars

\* the sleeps of a call that made n calls to the backend and slept after each
\* but the last: 1, 2, 4, ...
BackoffSleeps(sleeps, n) ==
    /\ Len(sleeps) = (IF n > 0 THEN n - 1 ELSE 0)
    /\ \A i \in 1..Len(sleeps) : sleeps[i] = Pow2(i - 1)

\* a call that has returned did so in the way C34 describes
TerminatedAsClaimed(a) ==
    /\ a.response.value = "AIResponse"
    /\ a.network_calls <= a.max_retries
    /\ BackoffSleeps(a.sleeps, a.network_calls)
    /\ a.response.success = FALSE => a.network_calls = a.max_retries

\* C34: an adapter's generate_question_answer_pair ends with a result after at
\* most max_retries calls to the backend, whatever max_retries >= 0 is: every
\* attempt but the last that got nothing usable is followed by a sleep of
\* 2^attempt seconds, and the last one returns the failure without sleeping.
C34_TerminatesWithResult ==
    \A r \in Reqs :
        (req[r].adapter.pc = "returned" /\ req[r].adapter.content \in LongContents)
            => TerminatedAsClaimed(req[r].adapter)


\* C31: a generate_question or generate_question_answer_pair call whose
\* content is too short changes nothing in the Health Tracker, whichever
\* backends of its chain it goes through.
C31_ShortContentLeavesHealth ==
    [][\A r \in Reqs :
          (InFlight(r) /\ req[r].content.text < 10 /\ req'[r] # req[r])
             => error_handler' = error_handler]_vars

\* what a caller can take for the result of a call: a success, or a failure
\* that says what went wrong
IsResult(response) ==
    /\ response.metadata # "pending"
    /\ response.success \in BOOLEAN
    /\ response.success = FALSE => response.error # None

\* C33: generate_question and generate_question_answer_pair let no exception
\* out and always end: whatever the adapters do (succeed, return a failure,
\* raise, return None), a call that is under way comes to its return, and what
\* it returns is a success or a response with success = false.
C33_AlwaysAResult ==
    /\ [](\A r \in Reqs : req[r].pc = "done" => IsResult(req[r].response))
    /\ \A r \in Reqs : InFlight(r) ~> (req[r].pc = "done")

\* a call is about to return the failure made of an adapter's None
C33_Witness ==
    \E r \in Reqs :
        /\ req[r].pc = "done"
        /\ req[r].response.success = FALSE
        /\ req[r].response.error = NoneTypeText
        /\ req[r].response.metadata = "all_providers_failed"
        /\ Len(req[r].log) = 2


\* the category C35 gives for an error text and the counter as incremented
ClaimedCategory(msg, failures) ==
    IF msg \in {"429 rate limit exceeded", "rate limit after timeout"} THEN "rate_limit"
    ELSE IF msg \in {"connection timeout", "timeout: unauthorized"} THEN "timeout"
    ELSE IF msg \in {"401 unauthorized", "unauthorized: quota exceeded"} THEN "authentication"
    ELSE IF msg = "quota exceeded" THEN "quota"
    ELSE IF failures >= 5 THEN "consecutive"
    ELSE "generic"

ClaimedCategoryDelta(category) ==
    CASE category = "rate_limit" -> 0 - Pct(10)
      [] category = "timeout" -> 0 - Pct(20)
      [] category = "authentication" -> 0 - Pct(50)
      [] category = "quota" -> 0 - Pct(80)
      [] category = "consecutive" -> 0 - Pct(30)
      [] OTHER -> 0 - Pct(15)

ClaimedCategorySeverity(category) ==
    CASE category \in {"rate_limit", "generic"} -> "medium"
      [] category = "timeout" -> "high"
      [] OTHER -> "critical"

\* C35: handle_error adds one to the error count and to consecutive_failures
\* and stamps the last error time, then takes the first category that matches
\* in the order rate limit, timeout/connection, authentication, quota/billing,
\* exhaustion, generic, the exhaustion test reading the counter as incremented:
\* a text of one of the four categories keeps its own delta and severity on
\* the fifth consecutive failure.
C35_CountersThenClassify ==
    [][\A p \in TrackedKinds : \A msg \in ErrorTexts \cup MixedTexts :
          record_failure(p, msg)
          => LET failures == error_handler.consecutive_failures[p] + 1
                 category == ClaimedCategory(msg, failures)
             IN /\ error_handler'.consecutive_failures[p] = failures
                /\ error_handler'.error_counts[p] = error_handler.error_counts[p] + 1
                /\ error_handler'.last_error_time[p] = now
                /\ HealthAfter(p) = Clamp(Health(p) + ClaimedCategoryDelta(category))
                /\ returned'.info.severity = ClaimedCategorySeverity(category)]_vars

\* the fifth consecutive failure was one with the words of the rate limit and
\* of the timeout: it was taken for a rate limit
C35_Witness ==
    /\ returned.op = "handle_error"
    /\ returned.msg = "rate limit after timeout"
    /\ error_handler.consecutive_failures[returned.provider] = 5
    /\ returned.info.severity = "medium"
    /\ returned.info.retry_delay = 30

\* not usable whatever the time: health below 0.30 or five consecutive failures
HardUnusable(eh, p) ==
    \/ get_provider_health(eh, p) < Pct(30)
    \/ eh.consecutive_failures[p] >= 5

\* C36: a provider whose health is below 0.30 or whose consecutive_failures
\* is 5 or more stays that way, and not usable, through the passage of time,
\* decay_health_over_time and further failures: only a recorded success or a
\* reset can end it.
C36_UnusableStays ==
    [][\A p \in TrackedKinds :
          (/\ HardUnusable(error_handler, p)
           /\ \/ Wait
              \/ HourPasses
              \/ decay
              \/ \E msg \in ErrorTexts : record_failure(p, msg))
          => /\ HardUnusable(error_handler', p)
             /\ ~should_use_provider(error_handler', p, now')]_vars

\* health below 0.30 with fewer than five consecutive failures, and more than
\* an hour since the last error: the cool-down is long over
C36_Witness ==
    \E p \in TrackedKinds :
        /\ Health(p) < Pct(30)
        /\ error_handler.consecutive_failures[p] < 5
        /\ error_handler.last_error_time[p] # Absent
        /\ SecondsSinceError(p) > 3600
        /\ ~should_use_provider(error_handler, p, now)

\* the record the tracker holds of a provider
HealthRecord(eh, p) ==
    <<eh.provider_health[p], eh.consecutive_failures[p], eh.error_counts[p],
      eh.last_error_time[p]>>

\* C38: handle_error, handle_success and reset_provider_health called for one
\* provider leave the record of every other provider as it was.
C38_IsolatedPerProvider ==
    [][\A p \in IsolationKinds :
          (\/ \E msg \in AdapterErrors : record_failure(p, msg)
           \/ record_success(p)
           \/ reset(p))
          => \A q \in AIProviderType \ {p} :
                HealthRecord(error_handler', q) = HealthRecord(error_handler, q)]_vars

\* a failure was just recorded for one provider while the other holds a record
\* of two failures
C38_Witness ==
    \E q \in IsolationKinds :
        /\ returned.op = "handle_error"
        /\ returned.provider # q
        /\ error_handler.error_counts[returned.provider] = 1
        /\ error_handler.error_counts[q] = 2
        /\ error_handler.consecutive_failures[q] = 2
        /\ Health(q) < One
        /\ error_handler.last_error_time[q] # Absent


\* C37: whatever calls of initialize_providers, ensure_provider_initialized
\* and the two generate methods were made, the primary provider is unset or
\* registered with status available, and so is every member of the fallback
\* order.
C37_PriorityRegisteredAvailable ==
    /\ primary_provider # None
          => /\ primary_provider \in services
             /\ provider_status[primary_provider] = "available"
    /\ \A k \in 1..Len(fallback_order) :
          /\ fallback_order[k] \in services
          /\ provider_status[fallback_order[k]] = "available"


\* the backslashes that stand in a row right before position i, the scan
\* having begun at start
BackslashRun(text, start, i) ==
    CHOOSE k \in 0..(i - start) :
        /\ \A j \in (i - k)..(i - 1) : text[j] = "\\"
        /\ k = i - start \/ text[i - k - 1] # "\\"

\* the character at i follows a backslash that is not itself escaped
Escaped(text, start, i) == BackslashRun(text, start, i) % 2 = 1

\* position i lies inside a double-quoted string opened at or after start
InString(text, start, i) ==
    Cardinality({j \in start..(i - 1) : text[j] = "\"" /\ ~Escaped(text, start, j)}) % 2 = 1

\* the brace c at position i takes part in the count
CountedBrace(text, start, i, c) ==
    /\ text[i] = c
    /\ ~Escaped(text, start, i)
    /\ ~InString(text, start, i)

BraceDepth(text, start, i) ==
    Cardinality({j \in start..i : CountedBrace(text, start, j, "{")})
       - Cardinality({j \in start..i : CountedBrace(text, start, j, "}")})

\* the positions at which the brace opened at start is closed
ClosedAt(text, start) ==
    {i \in start..Len(text) :
        CountedBrace(text, start, i, "}") /\ BraceDepth(text, start, i) = 0}

\* what C39 has the extractor return for a text
ClaimedExtract(text) ==
    LET opening == {k \in 1..Len(text) : text[k] = "{"}
        start == CHOOSE k \in opening : \A j \in opening : k <= j
        closing == ClosedAt(text, start)
    IN IF opening = {} THEN NoJson
       ELSE IF closing = {} THEN NoJson
       ELSE SubSeq(text, start, CHOOSE i \in closing : \A j \in closing : i <= j)

\* C39: _extract_json_from_text returns the substring from the first '{' to
\* the '}' that brings the brace depth back to 0, braces inside double-quoted
\* strings not being counted; a quote after a backslash does not open or close
\* a string, and of two backslashes in a row the second escapes nothing. It
\* returns None when the text has no '{' or the first '{' is never closed.
C39_BraceMatching ==
    \A r \in Reqs :
        req[r].scan.pc = "returned"
           => req[r].scan.result = ClaimedExtract(req[r].scan.text)

\* the scan of { \ \ " } has returned None: the second backslash did not
\* escape the quote, so the closing brace lies inside a string
C39_Witness ==
    \E r \in Reqs :
        /\ req[r].scan.pc = "returned"
        /\ req[r].scan.text = <<"{", "\\", "\\", "\"", "}">>
        /\ req[r].scan.result = NoJson
        /\ req[r].scan.in_string

====
